---- MODULE Spec2Model ----
(***************************************************************************)
(* A model of the ml-go neural-network library: the tensor engine, the     *)
(* layers (dense, convolution, pooling, flatten), the network orchestrator *)
(* and the two auto-encoder designs.                                       *)
(*                                                                         *)
(* Go objects live in heaps: `tensors` holds every *Tensor, `layers` every *)
(* layer object, `nets` every *NeuralNetwork and `aes` every *AutoEncoder. *)
(* An object's identity is its index in its heap, so two fields sharing a  *)
(* Go pointer hold the same index.                                         *)
(*                                                                         *)
(* float32 values are modelled by integers: every operation the model uses *)
(* (+, -, *, comparison with 0) is exact in float32 on the small integers  *)
(* the bounded inputs produce.  ReLU is the activation the model carries,  *)
(* being the one whose function and derivative map integers to integers.   *)
(***************************************************************************)
EXTENDS Integers, Sequences, FiniteSets, TLC

VARIABLES
    tensors,    \* heap of Tensor objects, indexed by tensor id
    layers,     \* heap of layer objects, indexed by layer id
    nets,       \* heap of NeuralNetwork objects: each its `layers` slice (layer ids)
    aes,        \* heap of AutoEncoder objects (either design)
    copies,     \* the copies taken so far: what was copied, the copy, the count then
    held,       \* the arrays the caller keeps from its first successful Predict
    ret,        \* what the last call was given and what it returned
    nops,       \* number of calls made so far
    trained,    \* whether the caller has called Train
    scenario    \* which program is being run, and the seed of its random source

vars == <<tensors, layers, nets, aes, copies, held, ret, nops, trained, scenario>>

----------------------------------------------------------------------------
(* Bounds and input sets *)

\* Calls per behaviour of the composition scenarios.
MaxComposeOps == 3

\* How many layers one NeuralNetwork.Add call is handed.
AddArgCounts == {1, 2}

\* Seeds of the global random source.
Seeds == {1, 2}

\* The auto encoders' input widths, and the widths of the coding layers added.
AutoEncoderInputSizes == {2, 3}

CodedSizes == {1, 2, 3}

\* LET x == e IN F(x), the definition handed to its body as an argument.
Let(e, F(_)) == F(e)

Max(a, b) == IF a >= b THEN a ELSE b

RECURSIVE SeqSum(_)
\* Sum of the terms of a sequence, accumulated in index order as the Go loops do.
SeqSum(s) == IF Len(s) = 0 THEN 0 ELSE SeqSum(SubSeq(s, 1, Len(s) - 1)) + s[Len(s)]

----------------------------------------------------------------------------
(* Tensor *)

\* The [][][]float32 of the given lengths whose element at (f, r, c), counted
\* from 1, is E(f, r, c): sequences of sequences of sequences, each built whole.
Values(frames, rows, cols, E(_, _, _)) ==
    [f \in 1..frames |->
        ([r \in 1..rows |-> ([c \in 1..cols |-> E(f, r, c)] \o <<>>)] \o <<>>)] \o <<>>

NewEmptyTensor3D(frames, rows, cols) ==
    [Frames |-> frames, Rows |-> rows, Cols |-> cols,
     values |-> Values(frames, rows, cols, LAMBDA f, r, c : 0)]

NewEmptyTensor2D(rows, cols) == NewEmptyTensor3D(1, rows, cols)

NewEmptyTensor1D(cols) == NewEmptyTensor3D(1, 1, cols)

NewValueTensor3D(values) ==
    IF Len(values) = 0
    THEN [Frames |-> 1, Rows |-> 1, Cols |-> 1, values |-> <<(<<(<<0>>)>>)>>]
    ELSE LET frames == Len(values)
             rows   == Len(values[1])
             cols   == Len(values[1][1])
         IN  [Frames |-> frames, Rows |-> rows, Cols |-> cols,
              values |-> Values(frames, rows, cols, LAMBDA f, r, c : values[f][r][c])]

NewValueTensor2D(values) ==
    IF Len(values) = 0
    THEN [Frames |-> 1, Rows |-> 1, Cols |-> 1, values |-> <<(<<(<<0>>)>>)>>]
    ELSE LET rows == Len(values)
             cols == Len(values[1])
         IN  [Frames |-> 1, Rows |-> rows, Cols |-> cols,
              values |-> Values(1, rows, cols, LAMBDA f, r, c : values[r][c])]

NewValueTensor1D(values) ==
    IF Len(values) = 0
    THEN [Frames |-> 1, Rows |-> 1, Cols |-> 1, values |-> <<(<<(<<0>>)>>)>>]
    ELSE LET cols == Len(values)
         IN  [Frames |-> 1, Rows |-> 1, Cols |-> cols,
              values |-> Values(1, 1, cols, LAMBDA f, r, c : values[c])]

\* Tensor.Copy: a new tensor built from the values.
Copy(t) == NewValueTensor3D(t.values)

InBounds(t, frame, row, col) ==
    /\ frame >= 0 /\ frame < t.Frames
    /\ row >= 0 /\ row < t.Rows
    /\ col >= 0 /\ col < t.Cols

\* Tensor.Get with the indices in bounds (0-based, as in the code).
Get(t, frame, row, col) == t.values[frame + 1][row + 1][col + 1]

GetAll(t) == t.values

\* Tensor.Set: out of bounds returns an error and writes nothing.
Set(t, frame, row, col, value) ==
    IF ~InBounds(t, frame, row, col)
    THEN [t |-> t, err |-> TRUE]
    ELSE [t |-> [t EXCEPT !.values[frame + 1][row + 1][col + 1] = value],
          err |-> FALSE]

\* Tensor.ApplyFunction: every element through F(value, frame, row, col).
ApplyFunction(t, F(_, _, _, _)) ==
    [t EXCEPT !.values =
        Values(t.Frames, t.Rows, t.Cols, LAMBDA f, r, c :
            F(Get(t, f - 1, r - 1, c - 1), f - 1, r - 1, c - 1))]

SameDimensions(t, other) ==
    t.Frames = other.Frames /\ t.Rows = other.Rows /\ t.Cols = other.Cols

RECURSIVE EqualsLoop(_, _, _)
\* The loop of Tensor.Equals from element number i on, frame by frame and row
\* by row: other.Get panics on an index outside other.
EqualsLoop(t, other, i) ==
    IF i >= t.Frames * t.Rows * t.Cols
    THEN [out |-> TRUE, panic |-> FALSE]
    ELSE Let([frame |-> i \div (t.Rows * t.Cols),
              row |-> (i \div t.Cols) % t.Rows,
              col |-> i % t.Cols],
             LAMBDA at :
                IF ~InBounds(other, at.frame, at.row, at.col)
                THEN [out |-> FALSE, panic |-> TRUE]
                ELSE IF Get(t, at.frame, at.row, at.col)
                        # Get(other, at.frame, at.row, at.col)
                THEN [out |-> FALSE, panic |-> FALSE]
                ELSE EqualsLoop(t, other, i + 1))

\* Equals that compares the frame counts as well.
EqualsComparingFrames(t, other) ==
    [out |-> /\ SameDimensions(t, other)
             /\ t.values = other.values,
     panic |-> FALSE]

\* Tensor.Equals
Equals(t, other) ==
    IF t.Rows # other.Rows \/ t.Cols # other.Cols
    THEN [out |-> FALSE, panic |-> FALSE]
    ELSE EqualsLoop(t, other, 0)

\* Tensor.SetTensor (SetAll in the nn package).
SetTensor(t, other) ==
    IF ~SameDimensions(t, other)
    THEN [t |-> t, err |-> TRUE]
    ELSE [t |-> ApplyFunction(t, LAMBDA cur, f, r, c : Get(other, f, r, c)),
          err |-> FALSE]

\* The i-th outcome of rand.Float32() under a seed, in halves: 0 is 0.0, 1 is 0.5.
RandHalf(seed, i) == IF seed = 1 THEN i % 2 ELSE ((i + 2) \div 2) % 2

\* Tensor.SetRandom, drawing from the random source starting at draw number `at`.
SetRandom(t, min, max, seed, at) ==
    IF min >= max
    THEN [t |-> t, err |-> TRUE]
    ELSE [t |-> ApplyFunction(t, LAMBDA cur, f, r, c :
                    (RandHalf(seed, at + (f * t.Rows + r) * t.Cols + c) * (max - min)) \div 2
                    + min),
          err |-> FALSE]

\* AddTensor that compares rows and columns only.
AddTensorIgnoringFrames(t, other) ==
    IF t.Rows # other.Rows \/ t.Cols # other.Cols
    THEN [t |-> t, err |-> TRUE]
    ELSE [t |-> ApplyFunction(t, LAMBDA cur, f, r, c :
                    IF f < other.Frames THEN cur + Get(other, f, r, c) ELSE cur),
          err |-> FALSE]

AddTensor(t, other) ==
    IF ~SameDimensions(t, other)
    THEN [t |-> t, err |-> TRUE]
    ELSE [t |-> ApplyFunction(t, LAMBDA cur, f, r, c : cur + Get(other, f, r, c)),
          err |-> FALSE]

SubtractTensor(t, other) ==
    IF ~SameDimensions(t, other)
    THEN [t |-> t, err |-> TRUE]
    ELSE [t |-> ApplyFunction(t, LAMBDA cur, f, r, c : cur - Get(other, f, r, c)),
          err |-> FALSE]

Scale(t, value) == ApplyFunction(t, LAMBDA cur, f, r, c : cur * value)

ScaleTensor(t, other) ==
    IF ~SameDimensions(t, other)
    THEN [t |-> t, err |-> TRUE]
    ELSE [t |-> ApplyFunction(t, LAMBDA cur, f, r, c : cur * Get(other, f, r, c)),
          err |-> FALSE]

\* The absent tensor (a nil *Tensor).
NilTensor == [Frames |-> 0, Rows |-> 0, Cols |-> 0, values |-> <<>>, nil |-> TRUE]

IsNil(t) == "nil" \in DOMAIN t

\* The product written into `result`: element (f, r, c) is the sum over i of
\* source1[f, r, i] * source2[f, i, c].
Product(source1, source2, result) ==
    [result EXCEPT !.values =
        Values(source1.Frames, source1.Rows, source2.Cols, LAMBDA f, r, c :
            SeqSum([i \in 1..source1.Cols |->
                Get(source1, f - 1, r - 1, i - 1) * Get(source2, f - 1, i - 1, c - 1)]))]

\* MatrixMultiply that takes any dest as the result tensor.
MatrixMultiplyAnyDest(source1, source2, dest) ==
    IF source1.Frames # source2.Frames
    THEN [t |-> NilTensor, err |-> TRUE, dest |-> dest]
    ELSE IF source1.Cols # source2.Rows
    THEN [t |-> NilTensor, err |-> TRUE, dest |-> dest]
    ELSE IF IsNil(dest)
    THEN [t |-> Product(source1, source2,
                        NewEmptyTensor3D(source1.Frames, source1.Rows, source2.Cols)),
          err |-> FALSE, dest |-> dest]
    ELSE [t |-> Product(source1, source2, dest), err |-> FALSE,
          dest |-> Product(source1, source2, dest)]

\* MatrixMultiply(source1, source2, dest) with dest a tensor distinct from the
\* sources, or nil.  Returns the tensor returned (`t`), the error, and what dest
\* holds after the call.
MatrixMultiply(source1, source2, dest) ==
    IF source1.Frames # source2.Frames
    THEN [t |-> NilTensor, err |-> TRUE, dest |-> dest]
    ELSE IF source1.Cols # source2.Rows
    THEN [t |-> NilTensor, err |-> TRUE, dest |-> dest]
    ELSE IF IsNil(dest)
    THEN [t |-> Product(source1, source2,
                        NewEmptyTensor3D(source1.Frames, source1.Rows, source2.Cols)),
          err |-> FALSE, dest |-> dest]
    ELSE IF dest.Frames # source1.Frames \/ dest.Rows # source1.Rows
            \/ dest.Cols # source2.Cols
    THEN [t |-> NilTensor, err |-> TRUE, dest |-> dest]
    ELSE [t |-> Product(source1, source2, dest), err |-> FALSE,
          dest |-> Product(source1, source2, dest)]

\* MatrixTranspose that transposes the first frame only.
MatrixTransposeFirstFrame(source, dest) ==
    IF IsNil(dest)
    THEN [t |-> ApplyFunction(NewEmptyTensor3D(source.Frames, source.Cols, source.Rows),
                              LAMBDA cur, f, r, c :
                                  IF f = 0 THEN Get(source, f, c, r) ELSE cur),
          err |-> FALSE, dest |-> dest]
    ELSE IF dest.Frames # source.Frames \/ dest.Rows # source.Cols
            \/ dest.Cols # source.Rows
    THEN [t |-> NilTensor, err |-> TRUE, dest |-> dest]
    ELSE [t |-> ApplyFunction(dest, LAMBDA cur, f, r, c :
                                  IF f = 0 THEN Get(source, f, c, r) ELSE cur),
          err |-> FALSE,
          dest |-> ApplyFunction(dest, LAMBDA cur, f, r, c :
                                  IF f = 0 THEN Get(source, f, c, r) ELSE cur)]

\* MatrixTranspose(source, dest) with dest distinct from source, or nil.
MatrixTranspose(source, dest) ==
    IF IsNil(dest)
    THEN [t |-> ApplyFunction(NewEmptyTensor3D(source.Frames, source.Cols, source.Rows),
                              LAMBDA cur, f, r, c : Get(source, f, c, r)),
          err |-> FALSE, dest |-> dest]
    ELSE IF dest.Frames # source.Frames \/ dest.Rows # source.Cols
            \/ dest.Cols # source.Rows
    THEN [t |-> NilTensor, err |-> TRUE, dest |-> dest]
    ELSE [t |-> ApplyFunction(dest, LAMBDA cur, f, r, c : Get(source, f, c, r)),
          err |-> FALSE,
          dest |-> ApplyFunction(dest, LAMBDA cur, f, r, c : Get(source, f, c, r))]

RECURSIVE MultiplyInto(_, _, _, _, _)
\* The loops of MatrixMultiply from element number k of the result on, the
\* result being tensor `dest` of the heap T and the sources the tensors
\* `source1` and `source2`: each element is read from the heap as it is when
\* the loop gets to it, and each sum is set in dest before the next is taken.
MultiplyInto(T, source1, source2, dest, k) ==
    IF k >= T[dest].Frames * T[dest].Rows * T[dest].Cols THEN T
    ELSE
    Let([frame |-> k \div (T[dest].Rows * T[dest].Cols),
         row |-> (k \div T[dest].Cols) % T[dest].Rows,
         col |-> k % T[dest].Cols], LAMBDA at :
    Let(SeqSum([i \in 1..T[source1].Cols |->
                   Get(T[source1], at.frame, at.row, i - 1)
                       * Get(T[source2], at.frame, i - 1, at.col)]), LAMBDA sum :
        MultiplyInto([T EXCEPT ![dest] = Set(@, at.frame, at.row, at.col, sum).t],
                     source1, source2, dest, k + 1)))

\* MatrixMultiply(T[source1], T[source2], dest) on tensors of the heap T, dest
\* being T[dest] or, for dest = 0, nil: the heap after the call, the tensor
\* returned and the error.  A dest that is one of the sources is written while
\* the sources are read.
MatrixMultiplyOnHeap(T, source1, source2, dest) ==
    IF dest = 0 \/ dest \notin {source1, source2}
    THEN Let(MatrixMultiply(T[source1], T[source2],
                            IF dest = 0 THEN NilTensor ELSE T[dest]), LAMBDA r :
             [T |-> IF dest = 0 THEN T ELSE [T EXCEPT ![dest] = r.dest],
              t |-> r.t, err |-> r.err])
    ELSE IF MatrixMultiply(T[source1], T[source2], T[dest]).err
    THEN [T |-> T, t |-> NilTensor, err |-> TRUE]
    ELSE Let(MultiplyInto(T, source1, source2, dest, 0), LAMBDA T1 :
             [T |-> T1, t |-> T1[dest], err |-> FALSE])

RECURSIVE TransposeInto(_, _, _, _)
\* The ApplyFunction of MatrixTranspose from element number k of the result
\* on, the result being tensor `dest` of the heap T.
TransposeInto(T, source, dest, k) ==
    IF k >= T[dest].Frames * T[dest].Rows * T[dest].Cols THEN T
    ELSE
    Let([frame |-> k \div (T[dest].Rows * T[dest].Cols),
         row |-> (k \div T[dest].Cols) % T[dest].Rows,
         col |-> k % T[dest].Cols], LAMBDA at :
        TransposeInto([T EXCEPT ![dest] =
                          Set(@, at.frame, at.row, at.col,
                              Get(T[source], at.frame, at.col, at.row)).t],
                      source, dest, k + 1))

\* MatrixTranspose(T[source], dest) on tensors of the heap T, dest being
\* T[dest] or, for dest = 0, nil.
MatrixTransposeOnHeap(T, source, dest) ==
    IF dest # source
    THEN Let(MatrixTranspose(T[source], IF dest = 0 THEN NilTensor ELSE T[dest]),
             LAMBDA r :
             [T |-> IF dest = 0 THEN T ELSE [T EXCEPT ![dest] = r.dest],
              t |-> r.t, err |-> r.err])
    ELSE IF MatrixTranspose(T[source], T[dest]).err
    THEN [T |-> T, t |-> NilTensor, err |-> TRUE]
    ELSE Let(TransposeInto(T, source, dest, 0), LAMBDA T1 :
             [T |-> T1, t |-> T1[dest], err |-> FALSE])

----------------------------------------------------------------------------
(* Activation functions *)

\* ActivationRELU.Function, applied in place to the tensor it is given.
ActivationFunction(activation, t) ==
    ApplyFunction(t, LAMBDA cur, f, r, c : IF cur > 0 THEN cur ELSE 0)

\* ActivationRELU.Derivative, applied in place to the tensor it is given.
ActivationDerivative(activation, t) ==
    ApplyFunction(t, LAMBDA cur, f, r, c : IF cur > 0 THEN 1 ELSE 0)

----------------------------------------------------------------------------
(* Layers.  H is the heap a constructor allocates in.  A layer's random     *)
(* fill draws from the random source of the scenario's seed.               *)

LayerShape(rows, cols, frames) == [Rows |-> rows, Cols |-> cols, Frames |-> frames]

NewDenseLayer(H, inputSize, outputSize, activation, seed) ==
    LET n       == Len(H.tensors)
        inputs  == NewEmptyTensor1D(inputSize)
        outputs == NewEmptyTensor1D(outputSize)
        weights == SetRandom(NewEmptyTensor2D(inputSize, outputSize), -1, 1, seed, 0).t
        bias    == SetRandom(NewEmptyTensor1D(outputSize), -1, 1, seed,
                             inputSize * outputSize).t
        prevUpdate == NewEmptyTensor2D(inputSize, outputSize)
    IN  [H |-> [H EXCEPT !.tensors = @ \o <<inputs, outputs, weights, bias, prevUpdate>>],
         layer |-> [kind |-> "dense",
                    inputShape  |-> LayerShape(1, inputSize, 1),
                    outputShape |-> LayerShape(1, outputSize, 1),
                    inputs |-> n + 1, outputs |-> n + 2,
                    Weights |-> n + 3, Bias |-> n + 4, PrevUpdate |-> n + 5,
                    Filters |-> <<>>, Activation |-> activation,
                    PoolSize |-> 0, Pooling |-> "none"]]

\* filters: the tensor ids of the caller's filter tensors.
NewConvolutionLayer(H, inputRows, inputCols, inputFrames, filters, activation) ==
    LET n            == Len(H.tensors)
        inputs       == NewEmptyTensor3D(inputFrames, inputRows, inputCols)
        outputFrames == inputFrames * Len(filters)
        outputs      == NewEmptyTensor3D(outputFrames, inputRows, inputCols)
    IN  [H |-> [H EXCEPT !.tensors = @ \o <<inputs, outputs>>],
         layer |-> [kind |-> "convolution",
                    inputShape  |-> LayerShape(inputRows, inputCols, inputFrames),
                    outputShape |-> LayerShape(inputRows, inputCols, outputFrames),
                    inputs |-> n + 1, outputs |-> n + 2,
                    Weights |-> 0, Bias |-> 0, PrevUpdate |-> 0,
                    Filters |-> filters, Activation |-> activation,
                    PoolSize |-> 0, Pooling |-> "none"]]

NewPoolingLayer(H, inputRows, inputCols, inputFrames, poolSize, pooling) ==
    LET n          == Len(H.tensors)
        inputs     == NewEmptyTensor3D(inputFrames, inputRows, inputCols)
        outputRows == inputRows \div poolSize
        outputCols == inputCols \div poolSize
        outputs    == NewEmptyTensor3D(inputFrames, outputRows, outputCols)
    IN  [H |-> [H EXCEPT !.tensors = @ \o <<inputs, outputs>>],
         layer |-> [kind |-> "pooling",
                    inputShape  |-> LayerShape(inputRows, inputCols, inputFrames),
                    outputShape |-> LayerShape(outputRows, outputCols, inputFrames),
                    inputs |-> n + 1, outputs |-> n + 2,
                    Weights |-> 0, Bias |-> 0, PrevUpdate |-> 0,
                    Filters |-> <<>>, Activation |-> "none",
                    PoolSize |-> poolSize, Pooling |-> pooling]]

NewFlattenLayer(H, inputRows, inputCols, inputFrames) ==
    LET n          == Len(H.tensors)
        inputs     == NewEmptyTensor3D(inputFrames, inputRows, inputCols)
        outputSize == inputRows * inputCols * inputFrames
        outputs    == NewEmptyTensor1D(outputSize)
    IN  [H |-> [H EXCEPT !.tensors = @ \o <<inputs, outputs>>],
         layer |-> [kind |-> "flatten",
                    inputShape  |-> LayerShape(inputRows, inputCols, inputFrames),
                    outputShape |-> LayerShape(1, outputSize, 1),
                    inputs |-> n + 1, outputs |-> n + 2,
                    Weights |-> 0, Bias |-> 0, PrevUpdate |-> 0,
                    Filters |-> <<>>, Activation |-> "none",
                    PoolSize |-> 0, Pooling |-> "none"]]

InputShape(l) == l.inputShape

OutputShape(l) == l.outputShape

\* DenseLayer.Copy: a new layer, then the weights and bias copied into it.
DenseLayerCopy(H, l, seed) ==
    Let(NewDenseLayer(H, InputShape(l).Cols, OutputShape(l).Cols, l.Activation, seed),
        LAMBDA new :
        [H |-> [new.H EXCEPT
                  !.tensors[new.layer.Weights] = SetTensor(@, H.tensors[l.Weights]).t,
                  !.tensors[new.layer.Bias] = SetTensor(@, H.tensors[l.Bias]).t],
         layer |-> new.layer])

\* ConvolutionLayer.Copy: the new layer is given l.Filters itself.
ConvolutionLayerCopy(H, l) ==
    NewConvolutionLayer(H, InputShape(l).Rows, InputShape(l).Cols, InputShape(l).Frames,
                        l.Filters, l.Activation)

PoolingLayerCopy(H, l) ==
    NewPoolingLayer(H, InputShape(l).Rows, InputShape(l).Cols, InputShape(l).Frames,
                    l.PoolSize, l.Pooling)

FlattenLayerCopy(H, l) ==
    NewFlattenLayer(H, InputShape(l).Rows, InputShape(l).Cols, InputShape(l).Frames)

\* layer.Copy() through the Layer interface.
LayerCopy(H, l, seed) ==
    CASE l.kind = "dense"       -> DenseLayerCopy(H, l, seed)
      [] l.kind = "convolution" -> ConvolutionLayerCopy(H, l)
      [] l.kind = "pooling"     -> PoolingLayerCopy(H, l)
      [] l.kind = "flatten"     -> FlattenLayerCopy(H, l)

\* The layer object stored in the heap: its id is its index.
StoreLayer(made) == [made.H EXCEPT !.layers = Append(@, made.layer)]

----------------------------------------------------------------------------
(* The layers' FeedForward and BackPropagate.  Each works on the tensor    *)
(* heap T and returns the heap after the call, the tensor returned (`out`, *)
(* and `ref`, its id when it is one of the layer's own tensors, else 0),   *)
(* the error, and whether the call panicked.                               *)

Returned(T, ref, out, err) ==
    [T |-> T, ref |-> ref, out |-> out, err |-> err, panic |-> FALSE]

Panicked(T) == [T |-> T, ref |-> 0, out |-> NilTensor, err |-> FALSE, panic |-> TRUE]

\* Go's integer division, which truncates toward zero.
GoDiv(a, b) == IF a >= 0 THEN a \div b ELSE -((-a) \div b)

DenseLayerFeedForward(T, l, inputs) ==
    IF inputs.Frames # 1 THEN Returned(T, 0, NilTensor, TRUE)
    ELSE
    Let([T EXCEPT ![l.inputs] = SetTensor(@, inputs).t], LAMBDA T1 :
    Let(MatrixMultiply(T1[l.inputs], T1[l.Weights], T1[l.outputs]), LAMBDA mm :
        IF mm.err THEN Returned(T1, 0, NilTensor, TRUE)
        ELSE
    Let(AddTensor(mm.t, T1[l.Bias]), LAMBDA sum :
        IF sum.err THEN Returned([T1 EXCEPT ![l.outputs] = mm.t], 0, NilTensor, TRUE)
        ELSE
    Let(ActivationFunction(l.Activation, sum.t), LAMBDA out :
        Returned([T1 EXCEPT ![l.outputs] = out], l.outputs, out, FALSE)))))

\* BackPropagate that stores the whole step, momentum term included, as the
\* previous update.
DenseLayerBackPropagateStoresStep(T, l, outputs, learningRate, momentum) ==
    IF outputs.Frames # 1 THEN Returned(T, 0, NilTensor, TRUE)
    ELSE
    Let(ScaleTensor(ActivationDerivative(l.Activation, Copy(T[l.outputs])), outputs),
        LAMBDA scaled :
        IF scaled.err THEN Returned(T, 0, NilTensor, TRUE)
        ELSE
    Let(Scale(scaled.t, learningRate), LAMBDA gradient :
    Let(MatrixMultiply(MatrixTranspose(T[l.inputs], NilTensor).t, gradient, NilTensor).t,
        LAMBDA weightChange :
    Let(AddTensor(weightChange, Scale(T[l.PrevUpdate], momentum)).t, LAMBDA step :
    Let([T EXCEPT ![l.Weights] = AddTensor(@, step).t,
                  ![l.PrevUpdate] = step,
                  ![l.Bias] = AddTensor(@, gradient).t], LAMBDA T1 :
    Let(MatrixMultiply(outputs, MatrixTranspose(T1[l.Weights], NilTensor).t, NilTensor),
        LAMBDA nextDeltas :
        Returned(T1, 0, nextDeltas.t, nextDeltas.err)))))))

DenseLayerBackPropagate(T, l, outputs, learningRate, momentum) ==
    IF outputs.Frames # 1 THEN Returned(T, 0, NilTensor, TRUE)
    ELSE
    Let(ScaleTensor(ActivationDerivative(l.Activation, Copy(T[l.outputs])), outputs),
        LAMBDA scaled :
        IF scaled.err THEN Returned(T, 0, NilTensor, TRUE)
        ELSE
    Let(Scale(scaled.t, learningRate), LAMBDA gradient :
    Let(MatrixTranspose(T[l.inputs], NilTensor).t, LAMBDA transposedInputs :
    Let(MatrixMultiply(transposedInputs, gradient, NilTensor), LAMBDA weightChange :
        IF weightChange.err THEN Returned(T, 0, NilTensor, TRUE)
        ELSE
    Let(AddTensor(T[l.Weights], weightChange.t), LAMBDA w1 :
        IF w1.err THEN Returned(T, 0, NilTensor, TRUE)
        ELSE
    Let([T EXCEPT ![l.Weights] = w1.t, ![l.PrevUpdate] = Scale(@, momentum)], LAMBDA T1 :
    Let(AddTensor(T1[l.Weights], T1[l.PrevUpdate]), LAMBDA w2 :
        IF w2.err THEN Returned(T1, 0, NilTensor, TRUE)
        ELSE
    Let([T1 EXCEPT ![l.Weights] = w2.t], LAMBDA T2 :
    Let(SetTensor(T2[l.PrevUpdate], weightChange.t), LAMBDA p :
        IF p.err THEN Returned(T2, 0, NilTensor, TRUE)
        ELSE
    Let([T2 EXCEPT ![l.PrevUpdate] = p.t], LAMBDA T3 :
    Let(AddTensor(T3[l.Bias], gradient), LAMBDA b :
        IF b.err THEN Returned(T3, 0, NilTensor, TRUE)
        ELSE
    Let([T3 EXCEPT ![l.Bias] = b.t], LAMBDA T4 :
    Let(MatrixTranspose(T4[l.Weights], NilTensor).t, LAMBDA transposedWeights :
    Let(MatrixMultiply(outputs, transposedWeights, NilTensor), LAMBDA nextDeltas :
        IF nextDeltas.err THEN Returned(T4, 0, NilTensor, TRUE)
        ELSE Returned(T4, 0, nextDeltas.t, FALSE)))))))))))))))

\* ConvolutionLayer.convolution: the filter centred on (row, col) of a frame,
\* the positions outside the frame skipped.
\* convolution with the filter flipped in both directions (a true convolution).
convolutionFlipped(matrix, frame, row, col, filter) ==
    SeqSum([k \in 1..(filter.Rows * filter.Cols) |->
        Let(((k - 1) \div filter.Cols) - GoDiv(filter.Rows, 2), LAMBDA or :
        Let(((k - 1) % filter.Cols) - GoDiv(filter.Cols, 2), LAMBDA oc :
            IF ~InBounds(matrix, frame, row + or, col + oc) THEN 0
            ELSE Get(matrix, frame, row + or, col + oc)
                 * Get(filter, 0, GoDiv(filter.Rows, 2) - or, GoDiv(filter.Cols, 2) - oc)))])

convolution(matrix, frame, row, col, filter) ==
    LET rowOffsets == GoDiv(-filter.Rows, 2) .. GoDiv(filter.Rows, 2)
        colOffsets == GoDiv(-filter.Cols, 2) .. GoDiv(filter.Cols, 2)
        lowRow == GoDiv(-filter.Rows, 2)
        lowCol == GoDiv(-filter.Cols, 2)
        nRows == Cardinality(rowOffsets)
        nCols == Cardinality(colOffsets)
        term(k) ==
            LET or == lowRow + ((k - 1) \div nCols)
                oc == lowCol + ((k - 1) % nCols)
            IN  IF row + or < 0 \/ row + or >= matrix.Rows THEN 0
                ELSE IF col + oc < 0 \/ col + oc >= matrix.Cols THEN 0
                ELSE Get(matrix, frame, row + or, col + oc)
                     * Get(filter, 0, or + GoDiv(filter.Rows, 2), oc + GoDiv(filter.Cols, 2))
    IN  SeqSum([k \in 1..(nRows * nCols) |-> term(k)])

RECURSIVE ConvolveFilters(_, _, _, _)
\* The loop over l.Filters: each filter writes its value for every position of
\* the input into l.outputs at that same position; a Set out of the bounds of
\* l.outputs fails and writes nothing.
ConvolveFilters(T, outputs, inputs, filters) ==
    IF filters = <<>> THEN outputs
    ELSE ConvolveFilters(T,
            ApplyFunction(outputs, LAMBDA cur, f, r, c :
                IF f < inputs.Frames /\ r < inputs.Rows /\ c < inputs.Cols
                THEN convolution(inputs, f, r, c, T[Head(filters)])
                ELSE cur),
            inputs, Tail(filters))

ConvolutionLayerFeedForward(T, l, inputs) ==
    Let([T EXCEPT ![l.inputs] = SetTensor(@, inputs).t], LAMBDA T1 :
    Let(ActivationFunction(l.Activation,
                           ConvolveFilters(T1, T1[l.outputs], inputs, l.Filters)),
        LAMBDA out :
        Returned([T1 EXCEPT ![l.outputs] = out], l.outputs, out, FALSE)))

ConvolutionLayerBackPropagate(T, l, outputs, learningRate, momentum) ==
    Returned(T, l.inputs, T[l.inputs], FALSE)

\* PoolingMax.FindPooledValue: the largest value of the pool whose corner is
\* (row, col).  Tensor.Get panics outside the tensor; PoolInBounds says it does not.
PoolInBounds(matrix, frame, row, col, poolSize) ==
    \A or \in 0..(poolSize - 1) : \A oc \in 0..(poolSize - 1) :
        InBounds(matrix, frame, row + or, col + oc)

RECURSIVE MaxFrom(_, _)
MaxFrom(max, rest) ==
    IF rest = <<>> THEN max
    ELSE MaxFrom(IF Head(rest) > max THEN Head(rest) ELSE max, Tail(rest))

PoolingMax(matrix, frame, row, col, poolSize) ==
    MaxFrom(Get(matrix, frame, row, col),
            [k \in 1..(poolSize * poolSize) |->
                Get(matrix, frame, row + ((k - 1) \div poolSize),
                    col + ((k - 1) % poolSize))])

\* PoolingAvg.FindPooledValue: the total of the pool divided by its size.  The
\* callers of the model pool values whose totals the size divides, so the
\* float32 quotient is the integer one.
PoolingAvg(matrix, frame, row, col, poolSize) ==
    SeqSum([k \in 1..(poolSize * poolSize) |->
                Get(matrix, frame, row + ((k - 1) \div poolSize),
                    col + ((k - 1) % poolSize))])
    \div (poolSize * poolSize)

\* l.Pooling.FindPooledValue: the function of the layer's pooling method.
FindPooledValue(pooling, matrix, frame, row, col, poolSize) ==
    IF pooling = "avg" THEN PoolingAvg(matrix, frame, row, col, poolSize)
    ELSE PoolingMax(matrix, frame, row, col, poolSize)

\* FeedForward that starts the pool of output (row, col) at (row, col) itself.
PoolingLayerFeedForwardUnitStride(T, l, inputs) ==
    Let([T EXCEPT ![l.inputs] = SetTensor(@, inputs).t], LAMBDA T1 :
        IF \E f \in 0..(T[l.outputs].Frames - 1) : \E r \in 0..(T[l.outputs].Rows - 1) :
           \E c \in 0..(T[l.outputs].Cols - 1) :
               ~PoolInBounds(inputs, f, r, c, l.PoolSize)
        THEN Panicked(T1)
        ELSE
    Let(ApplyFunction(T1[l.outputs], LAMBDA cur, f, r, c :
            FindPooledValue(l.Pooling, inputs, f, r, c, l.PoolSize)),
        LAMBDA out :
        Returned([T1 EXCEPT ![l.outputs] = out], l.outputs, out, FALSE)))

PoolingLayerFeedForward(T, l, inputs) ==
    Let([T EXCEPT ![l.inputs] = SetTensor(@, inputs).t], LAMBDA T1 :
        IF \E f \in 0..(T[l.outputs].Frames - 1) : \E r \in 0..(T[l.outputs].Rows - 1) :
           \E c \in 0..(T[l.outputs].Cols - 1) :
               ~PoolInBounds(inputs, f, r * l.PoolSize, c * l.PoolSize, l.PoolSize)
        THEN Panicked(T1)
        ELSE
    Let(ApplyFunction(T1[l.outputs], LAMBDA cur, f, r, c :
            FindPooledValue(l.Pooling, inputs, f, r * l.PoolSize, c * l.PoolSize,
                            l.PoolSize)),
        LAMBDA out :
        Returned([T1 EXCEPT ![l.outputs] = out], l.outputs, out, FALSE)))

PoolingLayerBackPropagate(T, l, outputs, learningRate, momentum) ==
    Returned(T, l.inputs, T[l.inputs], FALSE)

\* FlattenLayer.FeedForward: the input's values in frame, row, column order go
\* to columns 0, 1, ... of l.outputs; a Set beyond its last column fails and
\* writes nothing, a column the input does not reach keeps its value.
\* FeedForward whose flat index starts again at 0 for every frame.
FlattenLayerFeedForwardPerFrame(T, l, inputs) ==
    Let([T EXCEPT ![l.inputs] = SetTensor(@, inputs).t], LAMBDA T1 :
    Let(ApplyFunction(T1[l.outputs], LAMBDA cur, f, r, c :
            IF f = 0 /\ r = 0 /\ c < inputs.Rows * inputs.Cols
            THEN Get(inputs, inputs.Frames - 1, c \div inputs.Cols, c % inputs.Cols)
            ELSE cur),
        LAMBDA out :
        Returned([T1 EXCEPT ![l.outputs] = out], l.outputs, out, FALSE)))

FlattenLayerFeedForward(T, l, inputs) ==
    LET perFrame == inputs.Rows * inputs.Cols
    IN  Let([T EXCEPT ![l.inputs] = SetTensor(@, inputs).t], LAMBDA T1 :
        Let(ApplyFunction(T1[l.outputs], LAMBDA cur, f, r, c :
                IF f = 0 /\ r = 0 /\ c < inputs.Frames * perFrame
                THEN Get(inputs, c \div perFrame, (c % perFrame) \div inputs.Cols,
                         c % inputs.Cols)
                ELSE cur),
            LAMBDA out :
            Returned([T1 EXCEPT ![l.outputs] = out], l.outputs, out, FALSE)))

FlattenLayerBackPropagate(T, l, outputs, learningRate, momentum) ==
    Returned(T, l.inputs, T[l.inputs], FALSE)

\* The Layer interface: the call goes to the method of the layer's own type.
FeedForward(T, l, inputs) ==
    CASE l.kind = "dense"       -> DenseLayerFeedForward(T, l, inputs)
      [] l.kind = "convolution" -> ConvolutionLayerFeedForward(T, l, inputs)
      [] l.kind = "pooling"     -> PoolingLayerFeedForward(T, l, inputs)
      [] l.kind = "flatten"     -> FlattenLayerFeedForward(T, l, inputs)

BackPropagate(T, l, outputs, learningRate, momentum) ==
    CASE l.kind = "dense" ->
            DenseLayerBackPropagate(T, l, outputs, learningRate, momentum)
      [] l.kind = "convolution" ->
            ConvolutionLayerBackPropagate(T, l, outputs, learningRate, momentum)
      [] l.kind = "pooling" ->
            PoolingLayerBackPropagate(T, l, outputs, learningRate, momentum)
      [] l.kind = "flatten" ->
            FlattenLayerBackPropagate(T, l, outputs, learningRate, momentum)

----------------------------------------------------------------------------
(* NeuralNetwork: the value of a network object is its `layers` slice.     *)

NewNeuralNetwork == <<>>

LayerCount(nn) == Len(nn)

\* LayerAt: the layer id, or 0 for nil.
LayerAtCountingFromOne(nn, index) ==
    IF index <= 0 \/ index > Len(nn) THEN 0 ELSE nn[index]

LayerAt(nn, index) == IF index < 0 \/ index >= Len(nn) THEN 0 ELSE nn[index + 1]

RECURSIVE AddLoop(_, _, _)
\* The loop of NeuralNetwork.Add over the layers not yet handled.
AddLoop(L, nn, rest) ==
    IF rest = <<>> THEN [layers |-> nn, err |-> FALSE]
    ELSE LET layer == rest[1]
         IN  IF Len(nn) > 0 /\ OutputShape(L[nn[Len(nn)]]) # InputShape(L[layer])
             THEN [layers |-> nn, err |-> TRUE]
             ELSE AddLoop(L, Append(nn, layer), Tail(rest))

\* An Add that appends without comparing shapes.
NeuralNetworkAddUnchecked(L, nn, newLayers) == [layers |-> nn \o newLayers, err |-> FALSE]

RECURSIVE NeuralNetworkAddAppendsFirst(_, _, _)
\* An Add that appends each layer before comparing its shape.
NeuralNetworkAddAppendsFirst(L, nn, rest) ==
    IF rest = <<>> THEN [layers |-> nn, err |-> FALSE]
    ELSE IF Len(nn) > 0 /\ OutputShape(L[nn[Len(nn)]]) # InputShape(L[rest[1]])
         THEN [layers |-> Append(nn, rest[1]), err |-> TRUE]
         ELSE NeuralNetworkAddAppendsFirst(L, Append(nn, rest[1]), Tail(rest))

\* NeuralNetwork.Add(layers...): L is the layer heap, nn the network's slice.
NeuralNetworkAdd(L, nn, newLayers) == AddLoop(L, nn, newLayers)

\* What a call to a layer's method was given and what it returned, by value.
Call(op, index, arg, r) ==
    [op |-> op, layer |-> index, arg |-> arg, res |-> r.out, err |-> r.err]

\* The outcome of one of the network's methods: the tensor heap after it, what it
\* returned, and the calls it made to its layers, in order.
Outcome(r, log) ==
    [T |-> r.T, ref |-> r.ref, out |-> r.out, err |-> r.err, panic |-> r.panic,
     log |-> log]

RECURSIVE FeedForwardLoop(_, _, _, _, _, _)
\* The loop of NeuralNetwork.feedForward from layer `index` on; `nextInputs` is
\* what the layer before returned.
FeedForwardLoop(T, L, nn, index, nextInputs, log) ==
    IF index >= Len(nn) THEN Outcome(nextInputs, log)
    ELSE
    Let(FeedForward(T, L[nn[index + 1]], nextInputs.out), LAMBDA r :
    Let(Append(log, Call("FeedForward", index, nextInputs.out, r)), LAMBDA log1 :
        IF r.panic \/ r.err
        THEN Outcome([r EXCEPT !.ref = 0, !.out = NilTensor], log1)
        ELSE FeedForwardLoop(r.T, L, nn, index + 1, r, log1)))

NeuralNetworkFeedForward(T, L, nn, inputs) ==
    FeedForwardLoop(T, L, nn, 0, Returned(T, 0, NewValueTensor3D(inputs), FALSE), <<>>)

RECURSIVE BackPropagateForwards(_, _, _, _, _, _, _, _)
\* A backPropagate that walks the layers first to last.
BackPropagateForwards(T, L, nn, i, nextDeltas, learningRate, momentum, log) ==
    IF i >= Len(nn) THEN Outcome(Returned(T, 0, NilTensor, FALSE), log)
    ELSE
    Let(BackPropagate(T, L[nn[i + 1]], nextDeltas, learningRate, momentum), LAMBDA r :
    Let(Append(log, Call("BackPropagate", i, nextDeltas, r)), LAMBDA log1 :
        IF r.panic \/ r.err
        THEN Outcome([r EXCEPT !.ref = 0, !.out = NilTensor], log1)
        ELSE BackPropagateForwards(r.T, L, nn, i + 1, r.out, learningRate, momentum,
                                   log1)))

RECURSIVE BackPropagateLoop(_, _, _, _, _, _, _, _)
\* The loop of NeuralNetwork.backPropagate, from layer i down to layer 0.
BackPropagateLoop(T, L, nn, i, nextDeltas, learningRate, momentum, log) ==
    IF i < 0 THEN Outcome(Returned(T, 0, NilTensor, FALSE), log)
    ELSE
    Let(BackPropagate(T, L[nn[i + 1]], nextDeltas, learningRate, momentum), LAMBDA r :
    Let(Append(log, Call("BackPropagate", i, nextDeltas, r)), LAMBDA log1 :
        IF r.panic \/ r.err
        THEN Outcome([r EXCEPT !.ref = 0, !.out = NilTensor], log1)
        ELSE BackPropagateLoop(r.T, L, nn, i - 1, r.out, learningRate, momentum, log1)))

\* Train that back-propagates first layer to last.
NeuralNetworkTrainForwards(T, L, nn, inputs, targets, learningRate, momentum) ==
    Let(NeuralNetworkFeedForward(T, L, nn, inputs), LAMBDA outputs :
        IF outputs.panic \/ outputs.err THEN outputs
        ELSE
    Let(SubtractTensor(NewValueTensor3D(targets), outputs.out), LAMBDA deltas :
        IF deltas.err
        THEN Outcome(Returned(outputs.T, 0, NilTensor, TRUE), outputs.log)
        ELSE BackPropagateForwards(outputs.T, L, nn, 0, deltas.t,
                                   learningRate, momentum, outputs.log)))

\* Predict that hands out the last layer's output tensor itself.
NeuralNetworkPredictUncopied(T, L, nn, inputs) ==
    NeuralNetworkFeedForward(T, L, nn, inputs)

\* NeuralNetwork.Predict.  `out` holds the arrays returned; they are the storage
\* of the tensor Copy allocated, which no object refers to: ref is 0.
NeuralNetworkPredict(T, L, nn, inputs) ==
    Let(NeuralNetworkFeedForward(T, L, nn, inputs), LAMBDA outputs :
        IF outputs.panic \/ outputs.err THEN outputs
        ELSE [outputs EXCEPT !.ref = 0, !.out = Copy(outputs.out)])

NeuralNetworkTrain(T, L, nn, inputs, targets, learningRate, momentum) ==
    Let(NeuralNetworkFeedForward(T, L, nn, inputs), LAMBDA outputs :
        IF outputs.panic \/ outputs.err THEN outputs
        ELSE
    Let(SubtractTensor(NewValueTensor3D(targets), outputs.out), LAMBDA deltas :
        IF deltas.err
        THEN Outcome(Returned(outputs.T, 0, NilTensor, TRUE), outputs.log)
        ELSE BackPropagateLoop(outputs.T, L, nn, Len(nn) - 1, deltas.t,
                               learningRate, momentum, outputs.log)))

RECURSIVE CopyLoop(_, _, _, _)
\* The loop of NeuralNetwork.Copy: each layer copied and added to the new network,
\* the error of Add dropped.
CopyLoop(H, rest, new, seed) ==
    IF rest = <<>> THEN [H |-> H, nn |-> new]
    ELSE Let(StoreLayer(LayerCopy(H, H.layers[rest[1]], seed)), LAMBDA H1 :
            CopyLoop(H1, Tail(rest),
                     NeuralNetworkAdd(H1.layers, new, <<Len(H1.layers)>>).layers, seed))

\* A copy that hands back the receiver itself.
NeuralNetworkCopyShallow(H, id, seed) == [H |-> H, id |-> id]

\* NeuralNetwork.Copy of the network object `id`: the new object's id and the heap.
NeuralNetworkCopy(H, id, seed) ==
    Let(CopyLoop(H, H.nets[id], NewNeuralNetwork, seed), LAMBDA r :
        [H |-> [r.H EXCEPT !.nets = Append(@, r.nn)], id |-> Len(H.nets) + 1])

----------------------------------------------------------------------------
(* AutoEncoder, the design with an encoding and a decoding list.           *)

NewTwoListAutoEncoder(inputSize) ==
    [design |-> "twoList", inputSize |-> inputSize,
     encodingLayers |-> <<>>, decodingLayers |-> <<>>,
     layers |-> <<>>, isClosed |-> FALSE]

\* AutoEncoder.Copy: new lists holding the same layer objects.
TwoListCopy(H, id) ==
    LET ae  == H.aes[id]
        new == NewTwoListAutoEncoder(ae.inputSize)
    IN  [H |-> [H EXCEPT !.aes = Append(@,
                    [new EXCEPT !.encodingLayers = @ \o ae.encodingLayers,
                                !.decodingLayers = @ \o ae.decodingLayers])],
         id |-> Len(H.aes) + 1]

TwoListLayerCount(ae) == Len(ae.encodingLayers) + Len(ae.decodingLayers)

TwoListLayerAt(ae, index) ==
    IF index < 0 \/ index >= Len(ae.encodingLayers) THEN 0
    ELSE ae.encodingLayers[index + 1]

\* AddCodingLayer that appends the decoding layer to the decoding list.
TwoListAddCodingLayerAppendsBoth(H, id, coded, activation, seed) ==
    LET ae        == H.aes[id]
        inputSize == IF Len(ae.encodingLayers) > 0
                     THEN OutputShape(H.layers[ae.encodingLayers[Len(ae.encodingLayers)]]).Cols
                     ELSE ae.inputSize
    IN  Let(StoreLayer(NewDenseLayer(H, inputSize, coded, activation, seed)), LAMBDA H1 :
        Let(StoreLayer(NewDenseLayer(H1, coded, inputSize, activation, seed)), LAMBDA H2 :
            [H |-> [H2 EXCEPT !.aes[id].encodingLayers = Append(@, Len(H1.layers)),
                              !.aes[id].decodingLayers = Append(@, Len(H2.layers))],
             err |-> FALSE]))

\* AutoEncoder.AddCodingLayer: the encoding layer is appended, the mirrored
\* decoding layer is put at the front of the decoding list.
TwoListAddCodingLayer(H, id, coded, activation, seed) ==
    LET ae        == H.aes[id]
        inputSize == IF Len(ae.encodingLayers) > 0
                     THEN OutputShape(H.layers[ae.encodingLayers[Len(ae.encodingLayers)]]).Cols
                     ELSE ae.inputSize
    IN  Let(StoreLayer(NewDenseLayer(H, inputSize, coded, activation, seed)), LAMBDA H1 :
        Let(StoreLayer(NewDenseLayer(H1, coded, inputSize, activation, seed)), LAMBDA H2 :
            [H |-> [H2 EXCEPT !.aes[id].encodingLayers = Append(@, Len(H1.layers)),
                              !.aes[id].decodingLayers = <<Len(H2.layers)>> \o @],
             err |-> FALSE]))

----------------------------------------------------------------------------
(* AutoEncoder, the design with one list and the isClosed flag.            *)

NewClosedAutoEncoder(inputSize) ==
    [design |-> "closed", inputSize |-> inputSize,
     encodingLayers |-> <<>>, decodingLayers |-> <<>>,
     layers |-> <<>>, isClosed |-> FALSE]

ClosedLayerCount(ae) == Len(ae.layers)

ClosedLayerAt(ae, index) ==
    IF index < 0 \/ index >= Len(ae.layers) THEN 0 ELSE ae.layers[index + 1]

\* AddCodingLayer without the test of the closed flag.
ClosedAddCodingLayerWhenClosed(H, id, coded, activation, seed) ==
    LET ae == H.aes[id]
        inputSize == IF Len(ae.layers) > 0
                     THEN OutputShape(H.layers[ae.layers[Len(ae.layers)]]).Cols
                     ELSE ae.inputSize
    IN  Let(StoreLayer(NewDenseLayer(H, inputSize, coded, activation, seed)),
            LAMBDA H1 :
            [H |-> [H1 EXCEPT !.aes[id].layers = Append(@, Len(H1.layers))],
             err |-> FALSE])

ClosedAddCodingLayer(H, id, coded, activation, seed) ==
    LET ae == H.aes[id]
    IN  IF ae.isClosed THEN [H |-> H, err |-> TRUE]
        ELSE LET inputSize == IF Len(ae.layers) > 0
                              THEN OutputShape(H.layers[ae.layers[Len(ae.layers)]]).Cols
                              ELSE ae.inputSize
             IN  Let(StoreLayer(NewDenseLayer(H, inputSize, coded, activation, seed)),
                     LAMBDA H1 :
                     [H |-> [H1 EXCEPT !.aes[id].layers = Append(@, Len(H1.layers))],
                      err |-> FALSE])

ClosedAddDecodingLayer(H, id, activation, seed) ==
    LET ae == H.aes[id]
    IN  IF ae.isClosed THEN [H |-> H, err |-> TRUE]
        ELSE LET inputSize == IF Len(ae.layers) > 0
                              THEN OutputShape(H.layers[ae.layers[Len(ae.layers)]]).Cols
                              ELSE ae.inputSize
             IN  Let(StoreLayer(NewDenseLayer(H, inputSize, ae.inputSize, activation,
                                              seed)),
                     LAMBDA H1 :
                     [H |-> [H1 EXCEPT !.aes[id].layers = Append(@, Len(H1.layers)),
                                       !.aes[id].isClosed = TRUE],
                      err |-> FALSE])

RECURSIVE ClosedCopyLoop(_, _, _, _, _)
\* The loop of the closed design's Copy over the layers from index i on: the last
\* layer is re-added as the decoding layer, every other as a coding layer, and
\* the errors are dropped.
ClosedCopyLoop(H, srcLayers, i, new, seed) ==
    IF i > Len(srcLayers) THEN H
    ELSE LET layer == H.layers[srcLayers[i]]
         IN  ClosedCopyLoop(
                (IF i - 1 = Len(srcLayers) - 1
                 THEN ClosedAddDecodingLayer(H, new, layer.Activation, seed)
                 ELSE ClosedAddCodingLayer(H, new, OutputShape(layer).Cols,
                                           layer.Activation, seed)).H,
                srcLayers, i + 1, new, seed)

ClosedCopy(H, id, seed) ==
    LET ae  == H.aes[id]
        new == Len(H.aes) + 1
        H0  == [H EXCEPT !.aes = Append(@, NewClosedAutoEncoder(ae.inputSize))]
    IN  [H |-> ClosedCopyLoop(H0, ae.layers, 1, new, seed), id |-> new]

----------------------------------------------------------------------------
(* Running an auto encoder.  `draws` holds, for each layer of the list fed, *)
(* what rand.Intn returns for the layer's first noise column; the calls     *)
(* take the tensor heap T and the layer heap L.                             *)

\* AutoEncoder.isSparse, two-list design.
TwoListIsSparse(L, ae) ==
    \/ \E i \in 1..Len(ae.encodingLayers) :
          OutputShape(L[ae.encodingLayers[i]]).Cols >= ae.inputSize
    \/ \E i \in 1..Len(ae.decodingLayers) :
          OutputShape(L[ae.decodingLayers[i]]).Cols >= ae.inputSize

\* AutoEncoder.isSparse, closed-flag design.
ClosedIsSparse(L, ae) ==
    \E i \in 1..Len(ae.layers) : OutputShape(L[ae.layers[i]]).Cols >= ae.inputSize

RECURSIVE Noise(_, _, _)
\* The noise loop of feedForward from its i-th round on: Cols/2 rounds, each
\* setting the column rand.Intn(Cols) to zero.
Noise(t, i, draw) ==
    IF i >= t.Cols \div 2 THEN t
    ELSE Noise(Set(t, 0, 0, (draw + i) % t.Cols, 0).t, i + 1, draw)

RECURSIVE AutoFeedForwardLoop(_, _, _, _, _, _, _)
\* The loop of AutoEncoder.feedForward over the layers `list` from `index` on;
\* nextInputs is what the layer before returned, and with `noisy` the tensor a
\* layer returns, its output cache, has columns set to zero.
AutoFeedForwardLoop(T, L, list, index, nextInputs, noisy, draws) ==
    IF index >= Len(list) THEN Returned(T, nextInputs.ref, nextInputs.out, FALSE)
    ELSE
    Let(DenseLayerFeedForward(T, L[list[index + 1]], nextInputs.out), LAMBDA r :
        IF r.err THEN Returned(r.T, 0, NilTensor, TRUE)
        ELSE IF ~noisy
        THEN AutoFeedForwardLoop(r.T, L, list, index + 1, r, noisy, draws)
        ELSE
    Let(Noise(r.out, 0, draws[index + 1]), LAMBDA noised :
        AutoFeedForwardLoop([r.T EXCEPT ![r.ref] = noised], L, list, index + 1,
                            [r EXCEPT !.out = noised], noisy, draws)))

\* AutoEncoder.feedForward(inputs, layers, train), two-list design.
TwoListFeedForward(T, L, ae, inputs, list, train, draws) ==
    AutoFeedForwardLoop(T, L, list, 0, Returned(T, 0, inputs, FALSE),
                        train /\ TwoListIsSparse(L, ae), draws)

\* The []float32 made of row 0 of frame 0 of the tensor a call returned.
RowOf(r) == IF r.err THEN r ELSE [r EXCEPT !.ref = 0, !.out = GetAll(r.out)[1][1]]

\* AutoEncoder.Encode
TwoListEncode(T, L, ae, inputs, draws) ==
    RowOf(TwoListFeedForward(T, L, ae, NewValueTensor1D(inputs), ae.encodingLayers,
                             FALSE, draws))

\* AutoEncoder.Decode
TwoListDecode(T, L, ae, coded, draws) ==
    RowOf(TwoListFeedForward(T, L, ae, NewValueTensor1D(coded), ae.decodingLayers,
                             FALSE, draws))

\* AutoEncoder.backPropagate, two-list design: index i is encoding layer i below
\* the length of the encoding list, and decoding layer i - that length above.
TwoListBackPropagate(T, L, ae, deltas, learningRate, momentum) ==
    BackPropagateLoop(T, L, ae.encodingLayers \o ae.decodingLayers,
                      TwoListLayerCount(ae) - 1, deltas, learningRate, momentum, <<>>)

\* AutoEncoder.Train, two-list design.
TwoListTrain(T, L, ae, inputs, learningRate, momentum, draws) ==
    Let(TwoListFeedForward(T, L, ae, NewValueTensor1D(inputs), ae.encodingLayers,
                           TRUE, draws), LAMBDA coded :
        IF coded.err THEN coded
        ELSE
    Let(TwoListFeedForward(coded.T, L, ae, coded.out, ae.decodingLayers, TRUE,
                           SubSeq(draws, Len(ae.encodingLayers) + 1, Len(draws))),
        LAMBDA outputs :
        IF outputs.err THEN outputs
        ELSE
    Let(SubtractTensor(NewValueTensor1D(inputs), outputs.out), LAMBDA deltas :
        IF deltas.err THEN Returned(outputs.T, 0, NilTensor, TRUE)
        ELSE
    Let(TwoListBackPropagate(outputs.T, L, ae, deltas.t, learningRate, momentum),
        LAMBDA r : Returned(r.T, 0, NilTensor, r.err)))))

\* AutoEncoder.feedForward(inputs), closed-flag design.
ClosedFeedForward(T, L, ae, inputs, draws) ==
    AutoFeedForwardLoop(T, L, ae.layers, 0,
                        Returned(T, 0, NewValueTensor1D(inputs), FALSE),
                        ClosedIsSparse(L, ae), draws)

\* AutoEncoder.Predict: the outputs of every layer but the last, as arrays.
ClosedPredict(T, L, ae, inputs, draws) ==
    IF ~ae.isClosed THEN Returned(T, 0, NilTensor, TRUE)
    ELSE
    Let(ClosedFeedForward(T, L, ae, inputs, draws), LAMBDA r :
        IF r.err THEN r
        ELSE [r EXCEPT !.ref = 0,
                       !.out = [i \in 1..(Len(ae.layers) - 1) |->
                                   GetAll(r.T[L[ae.layers[i]].outputs])[1][1]]])

\* AutoEncoder.Train, closed-flag design.
ClosedTrain(T, L, ae, inputs, learningRate, momentum, draws) ==
    IF ~ae.isClosed THEN Returned(T, 0, NilTensor, TRUE)
    ELSE
    Let(ClosedFeedForward(T, L, ae, inputs, draws), LAMBDA outputs :
        IF outputs.err THEN outputs
        ELSE
    Let(SubtractTensor(NewValueTensor1D(inputs), outputs.out), LAMBDA deltas :
        IF deltas.err THEN Returned(outputs.T, 0, NilTensor, TRUE)
        ELSE
    Let(BackPropagateLoop(outputs.T, L, ae.layers, Len(ae.layers) - 1, deltas.t,
                          learningRate, momentum, <<>>),
        LAMBDA r : Returned(r.T, 0, NilTensor, r.err))))

----------------------------------------------------------------------------
(* The programs.  Each scenario is one caller: it builds its objects and   *)
(* calls their methods, one call per step.                                 *)

Heap == [tensors |-> tensors, layers |-> layers, nets |-> nets, aes |-> aes]

\* The package-level filter tensors: tensor ids 1 and 2.
FilterVerticalEdges ==
    NewValueTensor2D(<< <<-1, 0, 1>>, <<-1, 0, 1>>, <<-1, 0, 1>> >>)

FilterHorizontalEdges ==
    NewValueTensor2D(<< <<-1, -1, -1>>, <<0, 0, 0>>, <<1, 1, 1>> >>)

Globals == <<FilterVerticalEdges, FilterHorizontalEdges>>

NoCall == [op |-> "none", err |-> FALSE, before |-> <<>>, args |-> <<>>]

\* The constructor calls a caller writes as the arguments of Add.
Dense(inputSize, outputSize) ==
    [kind |-> "dense", rows |-> 1, cols |-> inputSize, frames |-> 1,
     out |-> outputSize, filters |-> <<>>, poolSize |-> 0]

Convolution(rows, cols, frames, filters) ==
    [kind |-> "convolution", rows |-> rows, cols |-> cols, frames |-> frames,
     out |-> 0, filters |-> filters, poolSize |-> 0]

Pooling(rows, cols, frames, poolSize) ==
    [kind |-> "pooling", rows |-> rows, cols |-> cols, frames |-> frames,
     out |-> 0, filters |-> <<>>, poolSize |-> poolSize]

Flatten(rows, cols, frames) ==
    [kind |-> "flatten", rows |-> rows, cols |-> cols, frames |-> frames,
     out |-> 0, filters |-> <<>>, poolSize |-> 0]

LayerChoices ==
    { Dense(1, 1), Dense(1, 2), Dense(2, 1), Flatten(1, 1, 1),
      Pooling(2, 2, 1, 2), Convolution(2, 2, 1, <<1>>) }

NewLayer(H, e, seed) ==
    CASE e.kind = "dense" -> NewDenseLayer(H, e.cols, e.out, "relu", seed)
      [] e.kind = "convolution" ->
            NewConvolutionLayer(H, e.rows, e.cols, e.frames, e.filters, "relu")
      [] e.kind = "pooling" ->
            NewPoolingLayer(H, e.rows, e.cols, e.frames, e.poolSize, "max")
      [] e.kind = "flatten" -> NewFlattenLayer(H, e.rows, e.cols, e.frames)

RECURSIVE NewLayers(_, _, _)
\* The argument list of a call evaluated left to right: the heap after it, the
\* ids of the layers made, and the heap sizes after each.
NewLayers(H, exprs, seed) ==
    IF exprs = <<>> THEN [H |-> H, ids |-> <<>>, marks |-> <<>>]
    ELSE Let(StoreLayer(NewLayer(H, exprs[1], seed)), LAMBDA H1 :
         Let(NewLayers(H1, Tail(exprs), seed), LAMBDA rest :
            [H |-> rest.H,
             ids |-> <<Len(H1.layers)>> \o rest.ids,
             marks |-> <<[nT |-> Len(H1.tensors), nL |-> Len(H1.layers)]>>
                       \o rest.marks]))

\* Garbage collection after a call that kept the first `kept` of the layers made
\* for it: the others are unreachable, and so are their tensors.
Collect(H, made, kept) ==
    IF kept = 0 THEN H
    ELSE [made.H EXCEPT !.tensors = SubSeq(@, 1, made.marks[kept].nT),
                        !.layers  = SubSeq(@, 1, made.marks[kept].nL)]

\* The caller holds no returned arrays yet.
NoHeld == [some |-> FALSE, ref |-> 0, values |-> <<>>, expect |-> <<>>]

InitCommon ==
    /\ copies = <<>>
    /\ held = NoHeld
    /\ ret = NoCall
    /\ nops = 0
    /\ trained = FALSE

InitCompose ==
    /\ InitCommon
    /\ tensors = Globals
    /\ layers = <<>>
    /\ scenario \in [program : {"nn", "twoList", "closed"}, seed : {1}]
    /\ nets = IF scenario.program = "nn" THEN <<NewNeuralNetwork>> ELSE <<>>
    /\ \E inputSize \in AutoEncoderInputSizes :
         aes = CASE scenario.program = "twoList" -> <<NewTwoListAutoEncoder(inputSize)>>
                 [] scenario.program = "closed"  -> <<NewClosedAutoEncoder(inputSize)>>
                 [] OTHER -> <<>>

\* neuralNetwork.Add(layers...) on the caller's network, object 1.
AddLayers ==
    /\ scenario.program = "nn"
    /\ nops < MaxComposeOps
    /\ \E k \in AddArgCounts : \E exprs \in [1..k -> LayerChoices] :
       \E made \in {NewLayers(Heap, exprs, scenario.seed)} :
       \E r \in {NeuralNetworkAdd(made.H.layers, nets[1], made.ids)} :
       \E H1 \in {Collect(Heap, made, Len(r.layers) - Len(nets[1]))} :
             /\ tensors' = H1.tensors
             /\ layers' = H1.layers
             /\ nets' = [nets EXCEPT ![1] = r.layers]
             /\ ret' = [op |-> "Add", err |-> r.err, before |-> nets[1],
                        args |-> [i \in 1..k |-> made.H.layers[made.ids[i]]]]
    /\ nops' = nops + 1
    /\ UNCHANGED <<trained, aes, copies, held, scenario>>

\* deep := neuralNetwork.Copy()
CopyNetwork ==
    /\ scenario.program = "nn"
    /\ nops < MaxComposeOps
    /\ \E r \in {NeuralNetworkCopy(Heap, 1, scenario.seed)} :
           /\ tensors' = r.H.tensors
           /\ layers' = r.H.layers
           /\ nets' = r.H.nets
           /\ copies' = Append(copies, [orig |-> 1, copy |-> r.id,
                                        count |-> LayerCount(nets[1])])
           /\ ret' = [op |-> "Copy", err |-> FALSE, before |-> nets[1], args |-> <<>>]
    /\ nops' = nops + 1
    /\ UNCHANGED <<trained, aes, held, scenario>>

\* autoEncoder.AddCodingLayer(coded, activation), two-list design.
TwoListAddCoding ==
    /\ scenario.program = "twoList"
    /\ nops < MaxComposeOps
    /\ \E coded \in CodedSizes :
         \E r \in {TwoListAddCodingLayer(Heap, 1, coded, "relu", scenario.seed)} :
             /\ tensors' = r.H.tensors
             /\ layers' = r.H.layers
             /\ aes' = r.H.aes
             /\ ret' = [op |-> "AddCodingLayer", err |-> r.err, before |-> aes[1],
                        args |-> <<coded>>]
    /\ nops' = nops + 1
    /\ UNCHANGED <<trained, nets, copies, held, scenario>>

\* deep := autoEncoder.Copy(), two-list design.
TwoListCopyAutoEncoder ==
    /\ scenario.program = "twoList"
    /\ nops < MaxComposeOps
    /\ \E r \in {TwoListCopy(Heap, 1)} :
           /\ aes' = r.H.aes
           /\ copies' = Append(copies, [orig |-> 1, copy |-> r.id,
                                        count |-> TwoListLayerCount(aes[1])])
           /\ ret' = [op |-> "Copy", err |-> FALSE, before |-> aes[1], args |-> <<>>]
    /\ nops' = nops + 1
    /\ UNCHANGED <<trained, tensors, layers, nets, held, scenario>>

\* autoEncoder.AddCodingLayer(coded, activation), closed-flag design.
ClosedAddCoding ==
    /\ scenario.program = "closed"
    /\ nops < MaxComposeOps
    /\ \E coded \in CodedSizes :
         \E r \in {ClosedAddCodingLayer(Heap, 1, coded, "relu", scenario.seed)} :
             /\ tensors' = r.H.tensors
             /\ layers' = r.H.layers
             /\ aes' = r.H.aes
             /\ ret' = [op |-> "AddCodingLayer", err |-> r.err, before |-> aes[1],
                        args |-> <<coded>>]
    /\ nops' = nops + 1
    /\ UNCHANGED <<trained, nets, copies, held, scenario>>

\* autoEncoder.AddDecodingLayer(activation), closed-flag design.
ClosedAddDecoding ==
    /\ scenario.program = "closed"
    /\ nops < MaxComposeOps
    /\ \E r \in {ClosedAddDecodingLayer(Heap, 1, "relu", scenario.seed)} :
           /\ tensors' = r.H.tensors
           /\ layers' = r.H.layers
           /\ aes' = r.H.aes
           /\ ret' = [op |-> "AddDecodingLayer", err |-> r.err, before |-> aes[1],
                      args |-> <<>>]
    /\ nops' = nops + 1
    /\ UNCHANGED <<trained, nets, copies, held, scenario>>

\* deep := autoEncoder.Copy(), closed-flag design.
ClosedCopyAutoEncoder ==
    /\ scenario.program = "closed"
    /\ nops < MaxComposeOps
    /\ \E r \in {ClosedCopy(Heap, 1, scenario.seed)} :
           /\ tensors' = r.H.tensors
           /\ layers' = r.H.layers
           /\ aes' = r.H.aes
           /\ copies' = Append(copies, [orig |-> 1, copy |-> r.id,
                                        count |-> ClosedLayerCount(aes[1])])
           /\ ret' = [op |-> "Copy", err |-> FALSE, before |-> aes[1], args |-> <<>>]
    /\ nops' = nops + 1
    /\ UNCHANGED <<trained, nets, held, scenario>>

NextCompose ==
    \/ AddLayers
    \/ CopyNetwork
    \/ TwoListAddCoding
    \/ TwoListCopyAutoEncoder
    \/ ClosedAddCoding
    \/ ClosedAddDecoding
    \/ ClosedCopyAutoEncoder

SpecCompose == InitCompose /\ [][NextCompose]_vars

----------------------------------------------------------------------------
(* The running programs: a caller builds a network, installs trained       *)
(* weights through the exported Weights and Bias fields, and then calls    *)
(* Predict, Train and the first layer's FeedForward.                       *)

RunPrograms == {"denseNet", "convNet"}

Topology(program) ==
    CASE program = "denseNet" -> <<Dense(2, 2), Dense(2, 1)>>
      [] program = "convNet"  -> <<Convolution(2, 2, 1, <<1, 2>>), Pooling(2, 2, 2, 2),
                                   Flatten(1, 1, 2), Dense(2, 1)>>

NoWeights == [W |-> <<>>, b |-> <<>>]

\* The weights and bias the caller installs, layer by layer.
TrainedWeights(program) ==
    CASE program = "denseNet" ->
            << [W |-> << <<1, -1>>, <<0, 1>> >>, b |-> <<0, 0>>],
               [W |-> << <<1>>, <<1>> >>, b |-> <<0>>] >>
      [] program = "convNet" ->
            << NoWeights, NoWeights, NoWeights,
               [W |-> << <<1>>, <<-1>> >>, b |-> <<1>>] >>

\* layer.Weights.SetTensor(w) and layer.Bias.SetTensor(b) on every dense layer.
InstallWeights(T, L, nn, given) ==
    [i \in 1..Len(T) |->
        IF \E k \in 1..Len(nn) : L[nn[k]].kind = "dense" /\ L[nn[k]].Weights = i
        THEN LET k == CHOOSE k \in 1..Len(nn) :
                          L[nn[k]].kind = "dense" /\ L[nn[k]].Weights = i
             IN  SetTensor(T[i], NewValueTensor2D(given[k].W)).t
        ELSE IF \E k \in 1..Len(nn) : L[nn[k]].kind = "dense" /\ L[nn[k]].Bias = i
        THEN LET k == CHOOSE k \in 1..Len(nn) :
                          L[nn[k]].kind = "dense" /\ L[nn[k]].Bias = i
             IN  SetTensor(T[i], NewValueTensor1D(given[k].b)).t
        ELSE T[i]] \o <<>>

\* The input arrays the caller passes: two of the network's input shape, one
\* of one frame and another width, one of two frames.
Inputs(program) ==
    CASE program = "denseNet" ->
            << << << <<1, 2>> >> >>, << << <<-1, 1>> >> >>,
               << << <<1, 2, 3>> >> >>, << << <<1, 2>> >>, << <<1, 2>> >> >> >>
      [] program = "convNet" ->
            << << << <<1, 2>>, <<3, 4>> >> >>, << << <<2, 0>>, <<-1, 1>> >> >>,
               << << <<5, 1, 2>> >> >>,
               << << <<1, 2>>, <<3, 4>> >>, << <<1, 0>>, <<0, 1>> >> >> >>

\* The targets the caller trains towards: two of the output shape, one not.
Targets == << << << <<3>> >> >>, << << <<0>> >> >>, << << <<1, 1>> >> >> >>

\* The Train calls the caller makes: input, target, learning rate, momentum.
TrainCalls ==
    { [input |-> 1, target |-> 1, learningRate |-> 1, momentum |-> 0],
      [input |-> 2, target |-> 2, learningRate |-> 1, momentum |-> 1],
      [input |-> 2, target |-> 1, learningRate |-> 1, momentum |-> 1],
      [input |-> 3, target |-> 1, learningRate |-> 1, momentum |-> 0],
      [input |-> 1, target |-> 3, learningRate |-> 1, momentum |-> 1] }

\* Calls per behaviour of the running programs.  One of them may be Train: the
\* learning rates are integers, and a second step at such a rate takes the
\* weights out of the range where float32 holds integers exactly.
MaxRunOps == 3

\* The value the caller writes into the arrays it holds.
Written == 7

InitRun ==
    /\ InitCommon
    /\ scenario \in [program : RunPrograms, seed : {1}]
    /\ aes = <<>>
    /\ \E made \in {NewLayers([tensors |-> Globals, layers |-> <<>>,
                              nets |-> <<NewNeuralNetwork>>, aes |-> <<>>],
                             Topology(scenario.program), scenario.seed)} :
       \E added \in {NeuralNetworkAdd(made.H.layers, NewNeuralNetwork, made.ids)} :
            /\ layers = made.H.layers
            /\ nets = <<added.layers>>
            /\ tensors = InstallWeights(made.H.tensors, made.H.layers, added.layers,
                                        TrainedWeights(scenario.program))

\* result, err := neuralNetwork.Predict(inputs); the caller keeps the arrays
\* of its first successful call.
RunPredict ==
    /\ scenario.program \in RunPrograms
    /\ nops < MaxRunOps
    /\ \E x \in 1..Len(Inputs(scenario.program)) :
       \E r \in {NeuralNetworkPredict(tensors, layers, nets[1],
                                      Inputs(scenario.program)[x])} :
            /\ ~r.panic
            /\ tensors' = r.T
            /\ held' = IF held.some \/ r.err THEN held
                       ELSE [some |-> TRUE, ref |-> r.ref, values |-> GetAll(r.out),
                             expect |-> GetAll(r.out)]
            /\ ret' = [op |-> "Predict", err |-> r.err, before |-> tensors,
                       args |-> <<Inputs(scenario.program)[x]>>,
                       result |-> GetAll(r.out), log |-> r.log]
    /\ nops' = nops + 1
    /\ UNCHANGED <<trained, layers, nets, aes, copies, scenario>>

\* err := neuralNetwork.Train(inputs, targets, learningRate, momentum)
RunTrain ==
    /\ scenario.program \in RunPrograms
    /\ nops < MaxRunOps
    /\ ~trained
    /\ \E c \in TrainCalls :
       \E r \in {NeuralNetworkTrain(tensors, layers, nets[1],
                                    Inputs(scenario.program)[c.input], Targets[c.target],
                                    c.learningRate, c.momentum)} :
            /\ ~r.panic
            /\ tensors' = r.T
            /\ ret' = [op |-> "Train", err |-> r.err, before |-> tensors,
                       args |-> <<Inputs(scenario.program)[c.input], Targets[c.target],
                                  c.learningRate, c.momentum>>,
                       result |-> <<>>, log |-> r.log]
    /\ nops' = nops + 1
    /\ trained' = TRUE
    /\ UNCHANGED <<layers, nets, aes, copies, held, scenario>>

\* out, err := neuralNetwork.LayerAt(0).FeedForward(NewValueTensor3D(inputs))
RunFeedForward ==
    /\ scenario.program \in RunPrograms
    /\ nops < MaxRunOps
    /\ \E x \in 1..Len(Inputs(scenario.program)) :
       \E r \in {FeedForward(tensors, layers[LayerAt(nets[1], 0)],
                             NewValueTensor3D(Inputs(scenario.program)[x]))} :
            /\ ~r.panic
            /\ tensors' = r.T
            /\ ret' = [op |-> "FeedForward", err |-> r.err, before |-> tensors,
                       args |-> <<Inputs(scenario.program)[x]>>,
                       result |-> GetAll(r.out), log |-> <<>>]
    /\ nops' = nops + 1
    /\ UNCHANGED <<trained, layers, nets, aes, copies, held, scenario>>

\* result[0][0][0] = Written, on the arrays the caller holds.  They are the
\* storage of tensor held.ref when that is a tensor of the heap.
RunWrite ==
    /\ scenario.program \in RunPrograms
    /\ nops < MaxRunOps
    /\ held.some
    /\ tensors' = IF held.ref = 0 THEN tensors
                  ELSE [tensors EXCEPT ![held.ref].values[1][1][1] = Written]
    /\ held' = [held EXCEPT !.values[1][1][1] = Written, !.expect[1][1][1] = Written]
    /\ ret' = [op |-> "Write", err |-> FALSE, before |-> tensors, args |-> <<Written>>,
               result |-> <<>>, log |-> <<>>]
    /\ nops' = nops + 1
    /\ UNCHANGED <<trained, layers, nets, aes, copies, scenario>>

NextRun ==
    \/ RunPredict
    \/ RunTrain
    \/ RunFeedForward
    \/ RunWrite

SpecRun == InitRun /\ [][NextRun]_vars

----------------------------------------------------------------------------
(* The layer program: a caller makes one dense layer and calls its         *)
(* FeedForward and BackPropagate itself.                                   *)

\* Calls per behaviour of the layer program.
MaxDenseOps == 3

\* The layer is NewDenseLayer(2, 2, ActivationRELU): layer object 1.
DenseInputs ==
    << NewValueTensor1D(<<-2, -1>>), NewValueTensor1D(<<1, -3>>),
       NewValueTensor1D(<<1, 2, 3>>) >>

DenseDeltas ==
    << NewValueTensor1D(<<1, -1>>), NewValueTensor1D(<<2, 1>>),
       NewValueTensor1D(<<0, 1>>), NewValueTensor1D(<<1>>) >>

\* The learning rate and momentum of a BackPropagate call.
DenseRates ==
    { [learningRate |-> 1, momentum |-> 0], [learningRate |-> 1, momentum |-> 2],
      [learningRate |-> 0, momentum |-> 2] }

InitDense ==
    /\ InitCommon
    /\ scenario \in [program : {"dense"}, seed : Seeds]
    /\ nets = <<>>
    /\ aes = <<>>
    /\ \E made \in {NewDenseLayer([tensors |-> Globals, layers |-> <<>>,
                                  nets |-> <<>>, aes |-> <<>>],
                                 2, 2, "relu", scenario.seed)} :
            /\ tensors = made.H.tensors
            /\ layers = <<made.layer>>

\* out, err := layer.FeedForward(inputs)
DenseFeedForward ==
    /\ scenario.program = "dense"
    /\ nops < MaxDenseOps
    /\ \E x \in 1..Len(DenseInputs) :
       \E r \in {DenseLayerFeedForward(tensors, layers[1], DenseInputs[x])} :
            /\ tensors' = r.T
            /\ ret' = [op |-> "FeedForward", err |-> r.err, before |-> tensors,
                       args |-> <<DenseInputs[x]>>, result |-> r.out]
    /\ nops' = nops + 1
    /\ UNCHANGED <<layers, nets, aes, copies, held, trained, scenario>>

\* nextDeltas, err := layer.BackPropagate(deltas, learningRate, momentum)
DenseBackPropagate ==
    /\ scenario.program = "dense"
    /\ nops < MaxDenseOps
    /\ \E d \in 1..Len(DenseDeltas) : \E rate \in DenseRates :
       \E r \in {DenseLayerBackPropagate(tensors, layers[1], DenseDeltas[d],
                                         rate.learningRate, rate.momentum)} :
            /\ tensors' = r.T
            /\ ret' = [op |-> "BackPropagate", err |-> r.err, before |-> tensors,
                       args |-> <<DenseDeltas[d], rate.learningRate, rate.momentum>>,
                       result |-> r.out]
    /\ nops' = nops + 1
    /\ UNCHANGED <<layers, nets, aes, copies, held, trained, scenario>>

NextDense ==
    \/ DenseFeedForward
    \/ DenseBackPropagate

SpecDense == InitDense /\ [][NextDense]_vars

----------------------------------------------------------------------------
(* The layer programs for the layers without weights: a caller makes one   *)
(* convolution, pooling or flatten layer and its own input tensors, and    *)
(* calls the layer's FeedForward and BackPropagate itself.  The caller's   *)
(* tensors are those of the heap after the layer's.                        *)

\* Calls per behaviour of a layer program.
MaxLayerOps == 3

\* A caller's own filter of one row, tensor id 3.
FilterOneRow == NewValueTensor2D(<< <<1, 2, 3>> >>)

\* TestConvolutionLayer's inputs, in halves (1 is 0.5).
ConvolutionTestInputs ==
    NewValueTensor2D(<< <<0, 2, 1, 2, 0>>, <<1, 2, 1, 2, 1>>, <<0, 1, 1, 1, 0>>,
                        <<1, 2, 2, 2, 1>>, <<0, 0, 1, 0, 0>> >>)

\* TestPoolingLayer's inputs.
PoolingTestInputs ==
    NewValueTensor2D(<< <<4, 2, 6, 5>>, <<1, 3, 8, 7>>, <<6, 9, 3, 4>>, <<8, 7, 2, 5>> >>)

\* TestFlattenLayer's inputs.
FlattenTestInputs ==
    NewValueTensor3D(<< << <<1, 2, 3>>, <<4, 5, 6>> >>,
                        << <<7, 8, 9>>, <<10, 11, 12>> >>,
                        << <<13, 14, 15>>, <<16, 17, 18>> >> >>)

Square3A == << <<1, 2, 0>>, <<0, 1, 3>>, <<2, 0, 1>> >>

Square3B == << <<0, 1, 1>>, <<2, 0, 0>>, <<1, 1, 2>> >>

Small == NewValueTensor2D(<< <<1, 2>>, <<3, 4>> >>)

Tall5A == << <<1, 5, 2>>, <<3, 0, 9>>, <<4, 4, 7>>, <<2, 6, 1>>, <<11, 12, 13>> >>

Tall5B == << <<0, 2, 10>>, <<1, 3, 20>>, <<7, 5, 30>>, <<6, 8, 40>>, <<50, 60, 70>> >>

\* A [][]float32 with every value times four.
TimesFour(rows) == [r \in 1..Len(rows) |-> [c \in 1..Len(rows[r]) |-> 4 * rows[r][c]]]

\* The layer a caller makes, its pooling method, and the tensors it feeds.
LayerCases ==
    << [make |-> Convolution(3, 3, 1, <<1>>), pooling |-> "none",
        inputs |-> <<NewValueTensor2D(Square3A), NewValueTensor2D(Square3B), Small>>],
       [make |-> Convolution(3, 3, 1, <<3>>), pooling |-> "none",
        inputs |-> <<NewValueTensor2D(Square3A), NewValueTensor2D(Square3B)>>],
       [make |-> Convolution(3, 3, 1, <<1, 2>>), pooling |-> "none",
        inputs |-> <<NewValueTensor2D(Square3A), NewValueTensor2D(Square3B)>>],
       [make |-> Convolution(3, 3, 2, <<1, 2>>), pooling |-> "none",
        inputs |-> <<NewValueTensor3D(<<Square3A, Square3B>>),
                     NewValueTensor3D(<<Square3B, Square3A>>)>>],
       [make |-> Convolution(3, 3, 2, <<2>>), pooling |-> "none",
        inputs |-> <<NewValueTensor3D(<<Square3A, Square3B>>),
                     NewValueTensor2D(Square3A)>>],
       [make |-> Convolution(5, 5, 1, <<1>>), pooling |-> "none",
        inputs |-> <<ConvolutionTestInputs>>],
       [make |-> Pooling(4, 4, 1, 2), pooling |-> "max",
        inputs |-> <<PoolingTestInputs, Small,
                     NewValueTensor2D(TimesFour(PoolingTestInputs.values[1]))>>],
       [make |-> Pooling(4, 4, 1, 2), pooling |-> "avg",
        inputs |-> <<NewValueTensor2D(TimesFour(PoolingTestInputs.values[1])),
                     NewValueTensor2D(TimesFour(TimesFour(PoolingTestInputs.values[1])))>>],
       [make |-> Pooling(5, 3, 2, 2), pooling |-> "max",
        inputs |-> <<NewValueTensor3D(<<Tall5A, Tall5B>>),
                     NewValueTensor3D(<<Tall5B, Tall5A>>)>>],
       [make |-> Pooling(5, 3, 2, 2), pooling |-> "avg",
        inputs |-> <<NewValueTensor3D(<<TimesFour(Tall5A), TimesFour(Tall5B)>>),
                     NewValueTensor3D(<<TimesFour(Tall5B), TimesFour(Tall5A)>>)>>],
       [make |-> Flatten(2, 3, 3), pooling |-> "none",
        inputs |-> <<FlattenTestInputs,
                     NewValueTensor3D(<<TimesFour(FlattenTestInputs.values[3]),
                                        FlattenTestInputs.values[1],
                                        FlattenTestInputs.values[2]>>),
                     Small>>] >>

NewLayerOfCase(H, case) ==
    CASE case.make.kind = "convolution" ->
            NewConvolutionLayer(H, case.make.rows, case.make.cols, case.make.frames,
                                case.make.filters, "relu")
      [] case.make.kind = "pooling" ->
            NewPoolingLayer(H, case.make.rows, case.make.cols, case.make.frames,
                            case.make.poolSize, case.pooling)
      [] case.make.kind = "flatten" ->
            NewFlattenLayer(H, case.make.rows, case.make.cols, case.make.frames)

InitLayer ==
    /\ InitCommon
    /\ scenario \in [program : {"layer"}, seed : {1}, case : 1..Len(LayerCases)]
    /\ nets = <<>>
    /\ aes = <<>>
    /\ \E made \in {NewLayerOfCase([tensors |-> Globals \o <<FilterOneRow>>,
                                   layers |-> <<>>, nets |-> <<>>, aes |-> <<>>],
                                  LayerCases[scenario.case])} :
            /\ tensors = made.H.tensors \o LayerCases[scenario.case].inputs
            /\ layers = <<made.layer>>

\* The ids of the caller's tensors.
CallerTensors == {x \in 1..Len(tensors) : x > layers[1].outputs}

\* A panic ends the program.
LayerRunning == IF ret.op = "none" THEN TRUE ELSE ~ret.panic

\* out, err := layer.FeedForward(x); the caller remembers the x of its last
\* call that returned no error, and what x held then.
LayerFeedForward ==
    /\ scenario.program = "layer"
    /\ nops < MaxLayerOps
    /\ LayerRunning
    /\ \E x \in CallerTensors :
       \E r \in {FeedForward(tensors, layers[1], tensors[x])} :
            /\ tensors' = r.T
            /\ held' = IF r.err \/ r.panic THEN held
                       ELSE [some |-> TRUE, ref |-> x, values |-> tensors[x],
                             expect |-> <<>>]
            /\ ret' = [op |-> "FeedForward", err |-> r.err, panic |-> r.panic,
                       before |-> tensors, args |-> <<tensors[x]>>,
                       result |-> r.out, ref |-> r.ref]
    /\ nops' = nops + 1
    /\ UNCHANGED <<layers, nets, aes, copies, trained, scenario>>

\* The deltas, learning rates and momentums of the BackPropagate calls.
LayerBackCalls ==
    { [learningRate |-> 0, momentum |-> 0, last |-> FALSE],
      [learningRate |-> 1, momentum |-> 2, last |-> TRUE] }

\* in, err := layer.BackPropagate(d, learningRate, momentum), d the caller's
\* first or last tensor.
LayerBackPropagate ==
    /\ scenario.program = "layer"
    /\ nops < MaxLayerOps
    /\ LayerRunning
    /\ \E c \in LayerBackCalls :
       \E d \in {IF c.last THEN Len(tensors) ELSE layers[1].outputs + 1} :
       \E r \in {BackPropagate(tensors, layers[1], tensors[d],
                               c.learningRate, c.momentum)} :
            /\ tensors' = r.T
            /\ ret' = [op |-> "BackPropagate", err |-> r.err, panic |-> r.panic,
                       before |-> tensors,
                       args |-> <<tensors[d], c.learningRate, c.momentum>>,
                       result |-> r.out, ref |-> r.ref]
    /\ nops' = nops + 1
    /\ UNCHANGED <<layers, nets, aes, copies, held, trained, scenario>>

\* x.Set(0, 0, 0, 8) on the tensor the caller fed last.
LayerCallerSet ==
    /\ scenario.program = "layer"
    /\ nops < MaxLayerOps
    /\ LayerRunning
    /\ held.some
    /\ tensors' = [tensors EXCEPT ![held.ref] = Set(@, 0, 0, 0, 8).t]
    /\ ret' = [op |-> "Set", err |-> FALSE, panic |-> FALSE, before |-> tensors,
               args |-> <<held.ref>>, result |-> NilTensor, ref |-> 0]
    /\ nops' = nops + 1
    /\ UNCHANGED <<layers, nets, aes, copies, held, trained, scenario>>

NextLayer ==
    \/ LayerFeedForward
    \/ LayerBackPropagate
    \/ LayerCallerSet

SpecLayer == InitLayer /\ [][NextLayer]_vars

----------------------------------------------------------------------------
(* The tensor program: a caller that owns a few tensors and calls the       *)
(* mutators and the matrix operations on them.                              *)

MaxTensorOps == 2

\* The tensors of the caller, by id: 1 and 2 are tensor1 and tensor2 of
\* TestTensorMultiply, 4 the tensor of TestTensorTranspose, 7 the invalid
\* tensor of TestTensorMultiply, 8 a tensor without rows, 9 the first frame of
\* 6, 10 two frames without rows, 11 a square tensor.
TensorHeap ==
    << NewValueTensor2D(<< <<2, 3>>, <<4, 1>>, <<1, 3>> >>),
       NewValueTensor2D(<< <<2, 2, 3>>, <<3, 1, 4>> >>),
       NewValueTensor2D(<< <<9, 9, 9>>, <<9, 9, 9>>, <<9, 9, 9>> >>),
       NewValueTensor2D(<< <<1, 3, 2>>, <<-3, 2, -1>> >>),
       NewValueTensor3D(<< << <<1, 0>>, <<2, -1>>, <<0, 3>> >>,
                           << <<0, 1>>, <<1, 1>>, <<2, 0>> >> >>),
       NewValueTensor3D(<< << <<1, 0, 2>>, <<0, 1, 1>> >>,
                           << <<2, 1, 0>>, <<1, -2, 1>> >> >>),
       NewValueTensor2D(<< <<2, 2, 3, 1>> >>),
       NewEmptyTensor3D(1, 0, 2),
       NewValueTensor2D(<< <<1, 0, 2>>, <<0, 1, 1>> >>),
       NewEmptyTensor3D(2, 0, 2),
       NewValueTensor2D(<< <<2, 1>>, <<3, 1>> >>) >>

InitTensor ==
    /\ InitCommon
    /\ scenario \in [program : {"tensor"}, seed : Seeds]
    /\ tensors = TensorHeap
    /\ layers = <<>>
    /\ nets = <<>>
    /\ aes = <<>>

\* A panic ends the program.
TensorRunning == IF ret.op = "Equals" THEN ~ret.panic ELSE TRUE

\* The receiver and the indices of the Set calls: one inside, and one outside
\* in each direction of each index.
SetCalls ==
    { [t |-> 4, at |-> <<0, 1, 2>>],
      [t |-> 6, at |-> <<1, 0, 1>>],
      [t |-> 4, at |-> <<1, 0, 0>>],
      [t |-> 4, at |-> <<-1, 0, 0>>],
      [t |-> 4, at |-> <<0, 2, 0>>],
      [t |-> 4, at |-> <<0, -1, 0>>],
      [t |-> 4, at |-> <<0, 0, 3>>],
      [t |-> 6, at |-> <<0, 0, -1>>],
      [t |-> 8, at |-> <<0, 0, 0>>] }

\* The value the Set calls write.
SetValue == 5

\* tensors[t].Set(frame, row, col, SetValue)
TensorSet ==
    /\ scenario.program = "tensor"
    /\ nops < MaxTensorOps
    /\ TensorRunning
    /\ \E c \in SetCalls :
       \E r \in {Set(tensors[c.t], c.at[1], c.at[2], c.at[3], SetValue)} :
            /\ tensors' = [tensors EXCEPT ![c.t] = r.t]
            /\ ret' = [op |-> "Set", err |-> r.err, before |-> tensors,
                       args |-> <<c.t, c.at>>, result |-> NilTensor]
    /\ nops' = nops + 1
    /\ UNCHANGED <<layers, nets, aes, copies, held, trained, scenario>>

\* The receiver and the operand of the calls that take a tensor: of the same
\* dimensions, the receiver itself, and an operand whose frames, rows or
\* columns differ.
OperandCalls ==
    { [t |-> 2, other |-> 4], [t |-> 4, other |-> 2], [t |-> 6, other |-> 6],
      [t |-> 8, other |-> 8],
      [t |-> 2, other |-> 6], [t |-> 3, other |-> 1], [t |-> 3, other |-> 2],
      [t |-> 2, other |-> 1], [t |-> 5, other |-> 1], [t |-> 4, other |-> 8] }

\* tensors[t].SetAll(tensors[other])
TensorSetAll ==
    /\ scenario.program = "tensor"
    /\ nops < MaxTensorOps
    /\ TensorRunning
    /\ \E c \in OperandCalls :
       \E r \in {SetTensor(tensors[c.t], tensors[c.other])} :
            /\ tensors' = [tensors EXCEPT ![c.t] = r.t]
            /\ ret' = [op |-> "SetAll", err |-> r.err, before |-> tensors,
                       args |-> <<c.t, c.other>>, result |-> NilTensor]
    /\ nops' = nops + 1
    /\ UNCHANGED <<layers, nets, aes, copies, held, trained, scenario>>

\* tensors[t].AddTensor(tensors[other])
TensorAddTensor ==
    /\ scenario.program = "tensor"
    /\ nops < MaxTensorOps
    /\ TensorRunning
    /\ \E c \in OperandCalls :
       \E r \in {AddTensor(tensors[c.t], tensors[c.other])} :
            /\ tensors' = [tensors EXCEPT ![c.t] = r.t]
            /\ ret' = [op |-> "AddTensor", err |-> r.err, before |-> tensors,
                       args |-> <<c.t, c.other>>, result |-> NilTensor]
    /\ nops' = nops + 1
    /\ UNCHANGED <<layers, nets, aes, copies, held, trained, scenario>>

\* tensors[t].SubtractTensor(tensors[other])
TensorSubtractTensor ==
    /\ scenario.program = "tensor"
    /\ nops < MaxTensorOps
    /\ TensorRunning
    /\ \E c \in OperandCalls :
       \E r \in {SubtractTensor(tensors[c.t], tensors[c.other])} :
            /\ tensors' = [tensors EXCEPT ![c.t] = r.t]
            /\ ret' = [op |-> "SubtractTensor", err |-> r.err, before |-> tensors,
                       args |-> <<c.t, c.other>>, result |-> NilTensor]
    /\ nops' = nops + 1
    /\ UNCHANGED <<layers, nets, aes, copies, held, trained, scenario>>

\* tensors[t].ScaleTensor(tensors[other])
TensorScaleTensor ==
    /\ scenario.program = "tensor"
    /\ nops < MaxTensorOps
    /\ TensorRunning
    /\ \E c \in OperandCalls :
       \E r \in {ScaleTensor(tensors[c.t], tensors[c.other])} :
            /\ tensors' = [tensors EXCEPT ![c.t] = r.t]
            /\ ret' = [op |-> "ScaleTensor", err |-> r.err, before |-> tensors,
                       args |-> <<c.t, c.other>>, result |-> NilTensor]
    /\ nops' = nops + 1
    /\ UNCHANGED <<layers, nets, aes, copies, held, trained, scenario>>

\* The receiver and the range of the SetRandom calls.
RandomCalls ==
    { [t |-> 4, min |-> -1, max |-> 1], [t |-> 6, min |-> 0, max |-> 4],
      [t |-> 4, min |-> 1, max |-> 1], [t |-> 6, min |-> 2, max |-> -1] }

\* tensors[t].SetRandom(min, max); every call before it is taken to have drawn
\* as many numbers as the largest tensor has elements.
TensorSetRandom ==
    /\ scenario.program = "tensor"
    /\ nops < MaxTensorOps
    /\ TensorRunning
    /\ \E c \in RandomCalls :
       \E r \in {SetRandom(tensors[c.t], c.min, c.max, scenario.seed, nops * 12)} :
            /\ tensors' = [tensors EXCEPT ![c.t] = r.t]
            /\ ret' = [op |-> "SetRandom", err |-> r.err, before |-> tensors,
                       args |-> <<c.t, c.min, c.max>>, result |-> NilTensor]
    /\ nops' = nops + 1
    /\ UNCHANGED <<layers, nets, aes, copies, held, trained, scenario>>

\* The sources and the dest of the MatrixMultiply calls; dest 0 is nil.
MultiplyCalls ==
    { [a |-> 1, b |-> 2, dest |-> 0], [a |-> 2, b |-> 1, dest |-> 0],
      [a |-> 5, b |-> 6, dest |-> 0], [a |-> 3, b |-> 3, dest |-> 0],
      [a |-> 8, b |-> 4, dest |-> 0],
      [a |-> 1, b |-> 7, dest |-> 0], [a |-> 1, b |-> 4, dest |-> 0],
      [a |-> 2, b |-> 4, dest |-> 0], [a |-> 1, b |-> 6, dest |-> 0],
      [a |-> 2, b |-> 5, dest |-> 0],
      [a |-> 1, b |-> 2, dest |-> 3], [a |-> 1, b |-> 4, dest |-> 3],
      [a |-> 1, b |-> 2, dest |-> 4], [a |-> 2, b |-> 1, dest |-> 3],
      [a |-> 5, b |-> 6, dest |-> 3], [a |-> 1, b |-> 7, dest |-> 3],
      [a |-> 11, b |-> 11, dest |-> 11], [a |-> 1, b |-> 11, dest |-> 1],
      [a |-> 11, b |-> 2, dest |-> 2], [a |-> 1, b |-> 2, dest |-> 1] }

\* result, err := MatrixMultiply(tensors[a], tensors[b], dest)
TensorMultiply ==
    /\ scenario.program = "tensor"
    /\ nops < MaxTensorOps
    /\ TensorRunning
    /\ \E c \in MultiplyCalls :
       \E r \in {MatrixMultiplyOnHeap(tensors, c.a, c.b, c.dest)} :
            /\ tensors' = r.T
            /\ ret' = [op |-> "MatrixMultiply", err |-> r.err, before |-> tensors,
                       args |-> <<c.a, c.b, c.dest>>, result |-> r.t]
    /\ nops' = nops + 1
    /\ UNCHANGED <<layers, nets, aes, copies, held, trained, scenario>>

\* The source and the dest of the MatrixTranspose calls; dest 0 is nil.
TransposeCalls ==
    { [a |-> 1, dest |-> 0], [a |-> 3, dest |-> 0], [a |-> 4, dest |-> 0],
      [a |-> 5, dest |-> 0], [a |-> 6, dest |-> 0], [a |-> 7, dest |-> 0],
      [a |-> 8, dest |-> 0],
      [a |-> 1, dest |-> 2], [a |-> 1, dest |-> 3], [a |-> 5, dest |-> 2],
      [a |-> 11, dest |-> 11], [a |-> 3, dest |-> 3], [a |-> 1, dest |-> 1] }

\* result, err := MatrixTranspose(tensors[a], dest)
TensorTranspose ==
    /\ scenario.program = "tensor"
    /\ nops < MaxTensorOps
    /\ TensorRunning
    /\ \E c \in TransposeCalls :
       \E r \in {MatrixTransposeOnHeap(tensors, c.a, c.dest)} :
            /\ tensors' = r.T
            /\ ret' = [op |-> "MatrixTranspose", err |-> r.err, before |-> tensors,
                       args |-> <<c.a, c.dest>>, result |-> r.t]
    /\ nops' = nops + 1
    /\ UNCHANGED <<layers, nets, aes, copies, held, trained, scenario>>

\* back, err := MatrixTranspose(result, nil), result the tensor the last
\* MatrixTranspose(tensors[a], nil) returned.
TensorTransposeBack ==
    /\ scenario.program = "tensor"
    /\ nops < MaxTensorOps
    /\ TensorRunning
    /\ ret.op = "MatrixTranspose"
    /\ ~ret.err
    /\ ret.args[2] = 0
    /\ \E r \in {MatrixTranspose(ret.result, NilTensor)} :
            ret' = [op |-> "TransposeBack", err |-> r.err, before |-> tensors,
                    args |-> <<ret.args[1]>>, result |-> r.t]
    /\ nops' = nops + 1
    /\ UNCHANGED <<tensors, layers, nets, aes, copies, held, trained, scenario>>

\* The receiver and the operand of the Equals calls.
EqualsCalls ==
    { [t |-> 2, other |-> 4], [t |-> 6, other |-> 6], [t |-> 1, other |-> 2],
      [t |-> 3, other |-> 1], [t |-> 3, other |-> 2],
      [t |-> 9, other |-> 6], [t |-> 6, other |-> 9],
      [t |-> 4, other |-> 6], [t |-> 6, other |-> 4],
      [t |-> 8, other |-> 10], [t |-> 10, other |-> 8] }

\* tensors[t].Equals(tensors[other])
TensorEquals ==
    /\ scenario.program = "tensor"
    /\ nops < MaxTensorOps
    /\ TensorRunning
    /\ \E c \in EqualsCalls :
       \E r \in {Equals(tensors[c.t], tensors[c.other])} :
            ret' = [op |-> "Equals", err |-> FALSE, panic |-> r.panic,
                    before |-> tensors, args |-> <<c.t, c.other>>,
                    result |-> r.out]
    /\ nops' = nops + 1
    /\ UNCHANGED <<tensors, layers, nets, aes, copies, held, trained, scenario>>

NextTensor ==
    \/ TensorEquals
    \/ TensorSet
    \/ TensorSetAll
    \/ TensorAddTensor
    \/ TensorSubtractTensor
    \/ TensorScaleTensor
    \/ TensorSetRandom
    \/ TensorMultiply
    \/ TensorTranspose
    \/ TensorTransposeBack

SpecTensor == InitTensor /\ [][NextTensor]_vars

----------------------------------------------------------------------------
(* The auto encoder programs: a caller builds an auto encoder of one of the *)
(* two designs and calls Encode, Decode, Train and Copy, or Predict and     *)
(* Train, on it.                                                            *)

MaxAutoOps == 3

\* The auto encoders built: the design, the input size, the widths of the
\* coding layers, and whether the closed-flag design gets its decoding layer.
AutoCases ==
    << [design |-> "twoList", inputSize |-> 2, coded |-> <<2>>, close |-> FALSE],
       [design |-> "twoList", inputSize |-> 2, coded |-> <<1>>, close |-> FALSE],
       [design |-> "twoList", inputSize |-> 3, coded |-> <<2>>, close |-> FALSE],
       [design |-> "closed", inputSize |-> 2, coded |-> <<2>>, close |-> TRUE],
       [design |-> "closed", inputSize |-> 2, coded |-> <<1>>, close |-> TRUE],
       [design |-> "closed", inputSize |-> 3, coded |-> <<2>>, close |-> TRUE],
       [design |-> "closed", inputSize |-> 2, coded |-> <<>>, close |-> TRUE],
       [design |-> "closed", inputSize |-> 2, coded |-> <<2>>, close |-> FALSE] >>

RECURSIVE AddCodingLayers(_, _, _, _)
\* AddCodingLayer called for each of the widths `coded` from number i on.
AddCodingLayers(H, coded, i, seed) ==
    IF i > Len(coded) THEN H
    ELSE AddCodingLayers(
            (IF H.aes[1].design = "twoList"
             THEN TwoListAddCodingLayer(H, 1, coded[i], "relu", seed)
             ELSE ClosedAddCodingLayer(H, 1, coded[i], "relu", seed)).H,
            coded, i + 1, seed)

\* The heap after the caller has built the auto encoder of a case.
NewAutoEncoderOfCase(case, seed) ==
    Let(AddCodingLayers([tensors |-> Globals, layers |-> <<>>, nets |-> <<>>,
                         aes |-> <<IF case.design = "twoList"
                                   THEN NewTwoListAutoEncoder(case.inputSize)
                                   ELSE NewClosedAutoEncoder(case.inputSize)>>],
                        case.coded, 1, seed),
        LAMBDA H : IF case.close THEN ClosedAddDecodingLayer(H, 1, "relu", seed).H
                   ELSE H)

InitAuto ==
    /\ InitCommon
    /\ scenario \in [program : {"auto"}, seed : Seeds, case : 1..Len(AutoCases)]
    /\ nets = <<>>
    /\ \E H \in {NewAutoEncoderOfCase(AutoCases[scenario.case], scenario.seed)} :
            /\ tensors = H.tensors
            /\ layers = H.layers
            /\ aes = H.aes

\* The arrays the caller passes as inputs and as codes.
AutoInputs == { <<-2>>, <<-2, -3>>, <<1, -1>>, <<-1, -2, -3>> }

\* The learning rate and the momentum of the Train calls.
AutoRates == { [learningRate |-> 1, momentum |-> 0],
               [learningRate |-> 1, momentum |-> 1] }

\* What rand.Intn may return for the layers `list`, one draw per layer: a
\* column of the layer's output, and 0 for a layer of one column, for which
\* nothing is drawn.
AutoDraws(list) ==
    { d \in [1..Len(list) -> 0..2] :
        \A i \in 1..Len(list) :
            d[i] < (IF OutputShape(layers[list[i]]).Cols \div 2 = 0 THEN 1
                    ELSE OutputShape(layers[list[i]]).Cols) }

\* An inference call of the two-list design draws nothing.
NoDraws == [i \in 1..Len(layers) |-> 0]

\* encoded, err := autoEncoder.Encode(inputs)
AutoEncode ==
    /\ scenario.program = "auto"
    /\ aes[1].design = "twoList"
    /\ nops < MaxAutoOps
    /\ \E inputs \in AutoInputs :
       \E r \in {TwoListEncode(tensors, layers, aes[1], inputs, NoDraws)} :
            /\ tensors' = r.T
            /\ ret' = [op |-> "Encode", err |-> r.err, before |-> tensors,
                       args |-> <<inputs>>, result |-> r.out,
                       fed |-> aes[1].encodingLayers]
    /\ nops' = nops + 1
    /\ UNCHANGED <<layers, nets, aes, copies, held, trained, scenario>>

\* decoded, err := autoEncoder.Decode(coded)
AutoDecode ==
    /\ scenario.program = "auto"
    /\ aes[1].design = "twoList"
    /\ nops < MaxAutoOps
    /\ \E coded \in AutoInputs :
       \E r \in {TwoListDecode(tensors, layers, aes[1], coded, NoDraws)} :
            /\ tensors' = r.T
            /\ ret' = [op |-> "Decode", err |-> r.err, before |-> tensors,
                       args |-> <<coded>>, result |-> r.out,
                       fed |-> aes[1].decodingLayers]
    /\ nops' = nops + 1
    /\ UNCHANGED <<layers, nets, aes, copies, held, trained, scenario>>

\* err := autoEncoder.Train(inputs, learningRate, momentum), two-list design.
AutoTrain ==
    /\ scenario.program = "auto"
    /\ aes[1].design = "twoList"
    /\ nops < MaxAutoOps
    /\ \E inputs \in AutoInputs : \E c \in AutoRates :
       \E draws \in AutoDraws(aes[1].encodingLayers \o aes[1].decodingLayers) :
       \E r \in {TwoListTrain(tensors, layers, aes[1], inputs, c.learningRate,
                              c.momentum, draws)} :
            /\ tensors' = r.T
            /\ ret' = [op |-> "Train", err |-> r.err, before |-> tensors,
                       args |-> <<inputs, c.learningRate, c.momentum>>,
                       result |-> <<>>,
                       fed |-> aes[1].encodingLayers \o aes[1].decodingLayers]
    /\ nops' = nops + 1
    /\ UNCHANGED <<layers, nets, aes, copies, held, trained, scenario>>

\* c := autoEncoder.Copy(), two-list design; the caller notes what the tensors
\* held when the copy was taken.
AutoCopy ==
    /\ scenario.program = "auto"
    /\ aes[1].design = "twoList"
    /\ nops < MaxAutoOps
    /\ copies = <<>>
    /\ \E r \in {TwoListCopy(Heap, 1)} :
           /\ aes' = r.H.aes
           /\ copies' = Append(copies, [orig |-> 1, copy |-> r.id,
                                        count |-> TwoListLayerCount(aes[1]),
                                        snapshot |-> tensors])
           /\ ret' = [op |-> "Copy", err |-> FALSE, before |-> tensors,
                      args |-> <<>>, result |-> <<>>, fed |-> <<>>]
    /\ nops' = nops + 1
    /\ UNCHANGED <<tensors, layers, nets, held, trained, scenario>>

\* outputs, err := autoEncoder.Predict(inputs), closed-flag design.
AutoPredict ==
    /\ scenario.program = "auto"
    /\ aes[1].design = "closed"
    /\ nops < MaxAutoOps
    /\ \E inputs \in AutoInputs : \E draws \in AutoDraws(aes[1].layers) :
       \E r \in {ClosedPredict(tensors, layers, aes[1], inputs, draws)} :
            /\ tensors' = r.T
            /\ ret' = [op |-> "Predict", err |-> r.err, before |-> tensors,
                       args |-> <<inputs>>, result |-> r.out,
                       fed |-> aes[1].layers]
    /\ nops' = nops + 1
    /\ UNCHANGED <<layers, nets, aes, copies, held, trained, scenario>>

\* err := autoEncoder.Train(inputs, learningRate, momentum), closed-flag design.
AutoClosedTrain ==
    /\ scenario.program = "auto"
    /\ aes[1].design = "closed"
    /\ nops < MaxAutoOps
    /\ \E inputs \in AutoInputs : \E c \in AutoRates :
       \E draws \in AutoDraws(aes[1].layers) :
       \E r \in {ClosedTrain(tensors, layers, aes[1], inputs, c.learningRate,
                             c.momentum, draws)} :
            /\ tensors' = r.T
            /\ ret' = [op |-> "Train", err |-> r.err, before |-> tensors,
                       args |-> <<inputs, c.learningRate, c.momentum>>,
                       result |-> <<>>, fed |-> aes[1].layers]
    /\ nops' = nops + 1
    /\ UNCHANGED <<layers, nets, aes, copies, held, trained, scenario>>

NextAuto ==
    \/ AutoEncode
    \/ AutoDecode
    \/ AutoTrain
    \/ AutoCopy
    \/ AutoPredict
    \/ AutoClosedTrain

SpecAuto == InitAuto /\ [][NextAuto]_vars

----------------------------------------------------------------------------
(* The copied-layer program: a caller makes one dense layer, calls its      *)
(* FeedForward and BackPropagate, takes a Copy of it at some point, and     *)
(* from then on makes every call on the layer and on the copy alike.        *)

MaxCopyOps == 3

InitCopied ==
    /\ InitCommon
    /\ scenario \in [program : {"copied"}, seed : Seeds]
    /\ nets = <<>>
    /\ aes = <<>>
    /\ \E made \in {NewDenseLayer([tensors |-> Globals, layers |-> <<>>,
                                  nets |-> <<>>, aes |-> <<>>],
                                 2, 2, "relu", scenario.seed)} :
            /\ tensors = made.H.tensors
            /\ layers = <<made.layer>>

\* copy := layer.Copy(): layer object 2.
CopiedTake ==
    /\ scenario.program = "copied"
    /\ nops < MaxCopyOps
    /\ copies = <<>>
    /\ \E made \in {DenseLayerCopy(Heap, layers[1], scenario.seed)} :
            /\ tensors' = made.H.tensors
            /\ layers' = Append(layers, made.layer)
            /\ copies' = <<[orig |-> 1, copy |-> 2, count |-> 1]>>
            /\ ret' = [op |-> "Copy", err |-> FALSE, before |-> tensors,
                       args |-> <<>>, result |-> NilTensor]
    /\ nops' = nops + 1
    /\ UNCHANGED <<nets, aes, held, trained, scenario>>

\* layer.FeedForward(inputs) and, once the copy is taken, copy.FeedForward(inputs).
CopiedFeedForward ==
    /\ scenario.program = "copied"
    /\ nops < MaxCopyOps
    /\ \E x \in 1..Len(DenseInputs) :
       \E r \in {DenseLayerFeedForward(tensors, layers[1], DenseInputs[x])} :
       \E both \in {IF copies = <<>> THEN r
                    ELSE DenseLayerFeedForward(r.T, layers[2], DenseInputs[x])} :
            /\ tensors' = both.T
            /\ ret' = [op |-> "FeedForward", err |-> r.err, before |-> tensors,
                       args |-> <<DenseInputs[x]>>, result |-> r.out]
    /\ nops' = nops + 1
    /\ UNCHANGED <<layers, nets, aes, copies, held, trained, scenario>>

\* layer.BackPropagate(deltas, learningRate, momentum) and, once the copy is
\* taken, the same call on the copy.
CopiedBackPropagate ==
    /\ scenario.program = "copied"
    /\ nops < MaxCopyOps
    /\ \E d \in 1..Len(DenseDeltas) : \E rate \in DenseRates :
       \E r \in {DenseLayerBackPropagate(tensors, layers[1], DenseDeltas[d],
                                         rate.learningRate, rate.momentum)} :
       \E both \in {IF copies = <<>> THEN r
                    ELSE DenseLayerBackPropagate(r.T, layers[2], DenseDeltas[d],
                                                 rate.learningRate, rate.momentum)} :
            /\ tensors' = both.T
            /\ ret' = [op |-> "BackPropagate", err |-> r.err, before |-> tensors,
                       args |-> <<DenseDeltas[d], rate.learningRate, rate.momentum>>,
                       result |-> r.out]
    /\ nops' = nops + 1
    /\ UNCHANGED <<layers, nets, aes, copies, held, trained, scenario>>

NextCopied ==
    \/ CopiedTake
    \/ CopiedFeedForward
    \/ CopiedBackPropagate

SpecCopied == InitCopied /\ [][NextCopied]_vars

----------------------------------------------------------------------------
(* Claims about composition, checked under SpecCompose.                    *)

AdjacentShapesMatch(nn) ==
    \A i \in 1..(Len(nn) - 1) :
        OutputShape(layers[nn[i]]) = InputShape(layers[nn[i + 1]])

\* C1: after any sequence of Add calls, failing or not, every adjacent pair of
\* layers of a network has OutputShape = InputShape, and the first layer of an
\* empty network is accepted without a shape check.
C1_AdjacentShapesMatch ==
    scenario.program = "nn" =>
        /\ \A n \in 1..Len(nets) : AdjacentShapesMatch(nets[n])
        /\ (ret.op = "Add" /\ ret.before = <<>>) =>
               (LayerCount(nets[1]) >= 1 /\ layers[nets[1][1]] = ret.args[1])

\* A network of three layers or more whose last Add call failed after keeping a layer.
C1_Witness ==
    /\ scenario.program = "nn"
    /\ LayerCount(nets[1]) >= 3
    /\ ret.op = "Add" /\ ret.err
    /\ LayerCount(nets[1]) > Len(ret.before)

\* C2: an Add call that returns the shape-mismatch error leaves the layer list
\* exactly as it was before the call.
C2_FailedAddLeavesListUnchanged ==
    (scenario.program = "nn" /\ ret.op = "Add" /\ ret.err) => nets[1] = ret.before

\* C3: adding a single layer whose InputShape differs from the last layer's
\* OutputShape returns an error, and LayerCount and every LayerAt are as before.
C3_SingleMismatchRejected ==
    (/\ scenario.program = "nn"
     /\ ret.op = "Add"
     /\ Len(ret.args) = 1
     /\ Len(ret.before) > 0
     /\ InputShape(ret.args[1]) # OutputShape(layers[ret.before[Len(ret.before)]]))
    => /\ ret.err
       /\ LayerCount(nets[1]) = LayerCount(ret.before)
       /\ \A i \in 0..(LayerCount(ret.before) - 1) :
              LayerAt(nets[1], i) = LayerAt(ret.before, i)

C3_Witness ==
    /\ scenario.program = "nn"
    /\ ret.op = "Add" /\ ret.err
    /\ Len(ret.args) = 1
    /\ LayerCount(ret.before) >= 2

\* The layer count seen through a reference to object `id` of the scenario.
CountOf(id) ==
    CASE scenario.program = "nn"      -> LayerCount(nets[id])
      [] scenario.program = "twoList" -> TwoListLayerCount(aes[id])
      [] scenario.program = "closed"  -> ClosedLayerCount(aes[id])

\* C8: a copy of a network or auto encoder is another object, and adding layers
\* to the original leaves the copy's layer count at the count when it was taken.
C8_CopyKeepsLayerCount ==
    \A i \in 1..Len(copies) :
        /\ copies[i].copy # copies[i].orig
        /\ CountOf(copies[i].copy) = copies[i].count

\* Layers were added to the original after a copy of a non-empty original.
C8_Witness ==
    \E i \in 1..Len(copies) :
        /\ copies[i].count >= 1
        /\ CountOf(copies[i].orig) > copies[i].count
        /\ CountOf(copies[i].copy) = copies[i].count

\* The tensors a layer refers to.
TensorsOf(l) ==
    ({l.inputs, l.outputs, l.Weights, l.Bias, l.PrevUpdate}
        \cup {l.Filters[i] : i \in 1..Len(l.Filters)}) \ {0}

\* The tensors reachable from a network.
TensorsOfNetwork(nn) == UNION {TensorsOf(layers[nn[i]]) : i \in 1..Len(nn)}

\* C7: a copy of a network shares no tensor with the original: not a cache, not
\* the weights, bias or previous update, and not a convolution layer's filters.
C7_CopySharesNoTensor ==
    scenario.program = "nn" =>
        \A i \in 1..Len(copies) :
            TensorsOfNetwork(nets[copies[i].copy])
                \cap TensorsOfNetwork(nets[copies[i].orig]) = {}

----------------------------------------------------------------------------
(* Claims about running a network, checked under SpecRun.                  *)

\* float32 represents every integer up to 2^24 in magnitude exactly.
Exact(v) == -16777216 <= v /\ v <= 16777216

\* Every value a tensor of the heap holds is one float32 holds exactly.
ValuesExact ==
    \A i \in 1..Len(tensors) :
        \A f \in 1..tensors[i].Frames : \A r \in 1..tensors[i].Rows :
            \A c \in 1..tensors[i].Cols : Exact(tensors[i].values[f][r][c])

ShapeOf(t) == LayerShape(t.Rows, t.Cols, t.Frames)

\* C4: a Train call feeds forward through layers 0..n-1 in order, each handed
\* what the one before returned, and only then back-propagates through layers
\* n-1..0 in order, the last layer handed target minus output and each other
\* layer what its successor's BackPropagate returned.  A call that returns no
\* error has made all 2n calls.
C4_TrainCallOrder ==
    (scenario.program \in RunPrograms /\ ret.op = "Train") =>
        LET n   == LayerCount(nets[1])
            log == ret.log
        IN  /\ Len(log) <= 2 * n
            /\ ~ret.err => Len(log) = 2 * n
            /\ \A k \in 1..Len(log) :
                 IF k <= n
                 THEN /\ log[k].op = "FeedForward"
                      /\ log[k].layer = k - 1
                      /\ log[k].arg = IF k = 1 THEN NewValueTensor3D(ret.args[1])
                                      ELSE log[k - 1].res
                 ELSE /\ log[k].op = "BackPropagate"
                      /\ log[k].layer = 2 * n - k
                      /\ log[k].arg =
                           IF k = n + 1
                           THEN SubtractTensor(NewValueTensor3D(ret.args[2]), log[n].res).t
                           ELSE log[k - 1].res

\* A Train call that went through every layer both ways with a delta that is
\* not zero and that the last layer's BackPropagate changed.
C4_Witness ==
    /\ scenario.program \in RunPrograms
    /\ ret.op = "Train" /\ ~ret.err
    /\ Len(ret.log) = 2 * LayerCount(nets[1])
    /\ LET n == LayerCount(nets[1])
       IN  /\ ret.log[n + 1].arg # NewEmptyTensor1D(1)
           /\ ret.log[n + 2].arg # ret.log[n + 1].arg
           /\ ret.before # tensors

\* C5: Predict, Train and the first layer's FeedForward, handed an input whose
\* dimensions differ from the first layer's InputShape, return an error.
C5_MismatchedInputRejected ==
    (/\ scenario.program \in RunPrograms
     /\ ret.op \in {"Predict", "Train", "FeedForward"}
     /\ ShapeOf(NewValueTensor3D(ret.args[1])) # InputShape(layers[LayerAt(nets[1], 0)]))
    => ret.err

\* The arrays the caller holds, as they read now.
HeldArrays == IF held.ref = 0 THEN held.values ELSE GetAll(tensors[held.ref])

\* C6: the arrays Predict returned are storage of no tensor of any layer: a
\* write into them changes no tensor, and no later call changes what they hold.
C6_PredictResultIsFresh ==
    scenario.program \in RunPrograms =>
        /\ held.some =>
              /\ held.ref \notin TensorsOfNetwork(nets[1])
              /\ HeldArrays = held.expect
        /\ ret.op = "Write" => tensors = ret.before

\* The caller wrote into the arrays of its first Predict, and a later Predict
\* on another input returned other values while the arrays kept what was written.
C6_Witness ==
    /\ scenario.program \in RunPrograms
    /\ held.some
    /\ held.expect[1][1][1] = Written
    /\ ret.op = "Predict" /\ ~ret.err
    /\ ret.result # held.expect
    /\ ret.before # tensors

----------------------------------------------------------------------------
(* Claims about the dense layer, checked under SpecDense.                  *)

\* C9: a BackPropagate call that returns no error returns delta times the
\* transpose of the weights as they were before the call.
C9_NextDeltaFromWeightsBefore ==
    (scenario.program = "dense" /\ ret.op = "BackPropagate" /\ ~ret.err) =>
        ret.result =
            MatrixMultiply(ret.args[1],
                           MatrixTranspose(ret.before[layers[1].Weights], NilTensor).t,
                           NilTensor).t

\* C10: after a BackPropagate call that returns no error, with g the learning
\* rate times derivative(y) times delta, element by element, and wc the
\* transposed cached input times g: Weights is W + wc + m * P, PrevUpdate is
\* wc, Bias is b + g, and the cached input and output are as before.
C10_DenseUpdate ==
    (scenario.program = "dense" /\ ret.op = "BackPropagate" /\ ~ret.err) =>
        LET l  == layers[1]
            W  == ret.before[l.Weights]
            P  == ret.before[l.PrevUpdate]
            b  == ret.before[l.Bias]
            x  == ret.before[l.inputs]
            y  == ret.before[l.outputs]
            g  == [c \in 1..y.Cols |->
                     ret.args[2] * ((IF y.values[1][1][c] > 0 THEN 1 ELSE 0)
                                    * ret.args[1].values[1][1][c])]
            wc == [r \in 1..x.Cols |-> [c \in 1..y.Cols |-> x.values[1][1][r] * g[c]]]
        IN  /\ tensors[l.Weights].values[1] =
                  [r \in 1..x.Cols |-> [c \in 1..y.Cols |->
                      W.values[1][r][c] + wc[r][c] + ret.args[3] * P.values[1][r][c]]]
            /\ tensors[l.PrevUpdate].values[1] = wc
            /\ tensors[l.Bias].values[1][1] = [c \in 1..y.Cols |-> b.values[1][1][c] + g[c]]
            /\ tensors[l.inputs] = x
            /\ tensors[l.outputs] = y

\* A BackPropagate call with momentum on a layer whose previous update was not
\* zero, and that itself changed the weights by more than the momentum term.
C10_Witness ==
    /\ scenario.program = "dense"
    /\ ret.op = "BackPropagate" /\ ~ret.err
    /\ ret.args[3] # 0
    /\ ret.before[layers[1].PrevUpdate] # NewEmptyTensor2D(2, 2)
    /\ tensors[layers[1].PrevUpdate] # NewEmptyTensor2D(2, 2)
    /\ tensors[layers[1].Bias] # ret.before[layers[1].Bias]

\* C11: a BackPropagate call with learning rate 0 leaves Weights as they were
\* before the call, whatever the delta, the momentum and the layer's state.
C11_ZeroRateKeepsWeights ==
    (scenario.program = "dense" /\ ret.op = "BackPropagate" /\ ret.args[2] = 0) =>
        tensors[layers[1].Weights] = ret.before[layers[1].Weights]

\* The delta of the call has an element that is not zero.
HasNonzero(t) ==
    \E f \in 1..t.Frames : \E r \in 1..t.Rows : \E c \in 1..t.Cols :
        t.values[f][r][c] # 0

\* C12: once FeedForward(x) has succeeded (the layer's cached input is x), a
\* BackPropagate call with a learning rate above 0 and a delta with an element
\* that is not zero, which returns no error, leaves Weights different from
\* their value before the call.
C12_NonzeroDeltaChangesWeights ==
    (/\ scenario.program = "dense"
     /\ ret.op = "BackPropagate" /\ ~ret.err
     /\ ret.args[2] > 0
     /\ HasNonzero(ret.args[1])
     /\ \E x \in 1..Len(DenseInputs) : ret.before[layers[1].inputs] = DenseInputs[x]) =>
        tensors[layers[1].Weights] # ret.before[layers[1].Weights]

----------------------------------------------------------------------------
(* Claims about the convolution, pooling and flatten layers, checked under *)
(* SpecLayer.                                                              *)

\* The last call was FeedForward(x) on a layer of the kind, x of the shape the
\* layer was made for.
FedForward(kind) ==
    /\ scenario.program = "layer"
    /\ layers[1].kind = kind
    /\ ret.op = "FeedForward"
    /\ ShapeOf(ret.args[1]) = InputShape(layers[1])

\* The sum, over the positions (i, j) of the filter, of the filter's value
\* times the value of frame f of x that lies under it when the filter's middle
\* is on (r, c); a position off the frame adds 0.  All indices from 1.
Correlation(x, f, r, c, flt) ==
    SeqSum([i \in 1..flt.Rows |-> SeqSum([j \in 1..flt.Cols |->
        LET rr == r + (i - 1) - (flt.Rows \div 2)
            cc == c + (j - 1) - (flt.Cols \div 2)
        IN  IF rr \in 1..x.Rows /\ cc \in 1..x.Cols
            THEN x.values[f][rr][cc] * flt.values[1][i][j]
            ELSE 0])])

\* Frame f of x correlated with the filter, through ReLU.
Activated(x, f, flt) ==
    [r \in 1..x.Rows |-> [c \in 1..x.Cols |->
        IF Correlation(x, f, r, c, flt) > 0 THEN Correlation(x, f, r, c, flt) ELSE 0]]

\* C13: FeedForward of a convolution layer with K filters on N frames returns
\* N*K frames, and every pair of a filter and an input frame has an output
\* frame of its own holding the activated correlation of the two; so no
\* filter's result is overwritten and no output frame is left unwritten.
C13_EveryFilterKeepsItsFrames ==
    FedForward("convolution") =>
        LET x     == ret.args[1]
            pairs == (1..Len(layers[1].Filters)) \X (1..x.Frames)
        IN  /\ ~ret.err /\ ~ret.panic
            /\ ret.result.Frames = x.Frames * Len(layers[1].Filters)
            /\ \E g \in [pairs -> 1..ret.result.Frames] :
                    /\ \A p, q \in pairs : p # q => g[p] # g[q]
                    /\ \A p \in pairs :
                          ret.result.values[g[p]] =
                              Activated(x, p[2], tensors[layers[1].Filters[p[1]]])

\* C14: FeedForward of a convolution layer with one filter of odd size, on
\* any input, returns a tensor whose element (f, r, c), for every position
\* (f, r, c) of the input, is ReLU of the correlation of frame f with the
\* filter centred on (r, c), zero outside the frame, the filter not flipped;
\* the vertical-edge filter on the test's 5x5 input gives the test's solution
\* (in halves).
C14_OneFilterCorrelation ==
    (/\ scenario.program = "layer"
     /\ layers[1].kind = "convolution"
     /\ Len(layers[1].Filters) = 1
     /\ ret.op = "FeedForward") =>
        /\ ~ret.err /\ ~ret.panic
        /\ \A f \in 1..ret.args[1].Frames : \A r \in 1..ret.args[1].Rows :
           \A c \in 1..ret.args[1].Cols :
              InBounds(ret.result, f - 1, r - 1, c - 1) =>
                  ret.result.values[f][r][c] =
                      Activated(ret.args[1], f, tensors[layers[1].Filters[1]])[r][c]
        /\ (/\ ret.args[1] = ConvolutionTestInputs
            /\ tensors[layers[1].Filters[1]] = FilterVerticalEdges) =>
              ret.result.values[1] =
                  << <<4, 1, 0, 0, 0>>, <<5, 2, 0, 0, 0>>, <<5, 2, 0, 0, 0>>,
                     <<3, 3, 0, 0, 0>>, <<2, 2, 0, 0, 0>> >>

\* The test's FeedForward after an earlier call, and a one-row filter's.
C14_Witness ==
    /\ FedForward("convolution") /\ Len(layers[1].Filters) = 1
    /\ nops > 1
    /\ \/ ret.args[1] = ConvolutionTestInputs
       \/ tensors[layers[1].Filters[1]] = FilterOneRow
    /\ ret.result # ret.args[1]
    /\ ret.result # NewEmptyTensor3D(ret.result.Frames, ret.result.Rows, ret.result.Cols)

\* C15: once FeedForward(x) has returned without error, a BackPropagate call
\* returns without error a tensor with the dimensions and the elements x had
\* at that FeedForward, whatever its arguments and whatever the caller has
\* written into x since, and changes no tensor.
C15_BackPropagateReturnsInput ==
    (/\ scenario.program = "layer"
     /\ ret.op = "BackPropagate"
     /\ held.some) =>
        /\ ~ret.err /\ ~ret.panic
        /\ ret.result = held.values
        /\ tensors = ret.before

----------------------------------------------------------------------------
(* Claims about the tensor operations, checked under SpecTensor.           *)

\* The dimensions of a tensor and the lengths of its arrays are frames, rows, cols.
HasDimensions(t, frames, rows, cols) ==
    /\ ~IsNil(t)
    /\ t.Frames = frames /\ t.Rows = rows /\ t.Cols = cols
    /\ Len(t.values) = frames
    /\ \A f \in 1..frames :
        /\ Len(t.values[f]) = rows
        /\ \A r \in 1..rows : Len(t.values[f][r]) = cols

\* C18: MatrixMultiply(a, b, nil) succeeds iff a.Frames = b.Frames and
\* a.Cols = b.Rows; on success the result has dimensions (a.Frames, a.Rows,
\* b.Cols) and result[f,r,c] is the sum over i of a[f,r,i] * b[f,i,c]; otherwise
\* it returns an error and no tensor; with a dest of any other shape than
\* (a.Frames, a.Rows, b.Cols) it returns an error and leaves dest unchanged.
C18_MatrixMultiplyContract ==
    (scenario.program = "tensor" /\ ret.op = "MatrixMultiply") =>
        LET a == ret.before[ret.args[1]]
            b == ret.before[ret.args[2]]
            dest == ret.args[3]
        IN  /\ dest = 0 =>
                /\ ~ret.err <=> (a.Frames = b.Frames /\ a.Cols = b.Rows)
                /\ ~ret.err =>
                    /\ HasDimensions(ret.result, a.Frames, a.Rows, b.Cols)
                    /\ \A f \in 1..a.Frames : \A r \in 1..a.Rows : \A c \in 1..b.Cols :
                          ret.result.values[f][r][c] =
                              SeqSum([i \in 1..a.Cols |->
                                         a.values[f][r][i] * b.values[f][i][c]])
                /\ ret.err => IsNil(ret.result)
            /\ (/\ dest # 0
                /\ <<ret.before[dest].Frames, ret.before[dest].Rows,
                     ret.before[dest].Cols>> # <<a.Frames, a.Rows, b.Cols>>)
               => (ret.err /\ tensors[dest] = ret.before[dest])

\* The product of TestTensorMultiply, returned for a nil dest.
C18_Witness ==
    /\ scenario.program = "tensor"
    /\ ret.op = "MatrixMultiply"
    /\ ret.args = <<1, 2, 0>>
    /\ ~ret.err
    /\ ret.before[1] = TensorHeap[1] /\ ret.before[2] = TensorHeap[2]
    /\ ret.result.values = << << <<13, 7, 18>>, <<11, 9, 16>>, <<11, 5, 15>> >> >>

\* C19: for a tensor A of any frames, rows and cols, MatrixTranspose(A, nil)
\* has dimensions (A.Frames, A.Cols, A.Rows) with result[f,r,c] = A[f,c,r] and
\* leaves A unchanged, and the transpose of that result equals A in dimensions
\* and in every element.
C19_TransposeAndBack ==
    /\ (scenario.program = "tensor" /\ ret.op = "MatrixTranspose" /\ ret.args[2] = 0) =>
        LET A == ret.before[ret.args[1]]
        IN  /\ ~ret.err
            /\ HasDimensions(ret.result, A.Frames, A.Cols, A.Rows)
            /\ \A f \in 1..A.Frames : \A r \in 1..A.Cols : \A c \in 1..A.Rows :
                  ret.result.values[f][r][c] = A.values[f][c][r]
            /\ tensors[ret.args[1]] = A
    /\ (scenario.program = "tensor" /\ ret.op = "TransposeBack") =>
        LET A == tensors[ret.args[1]]
        IN  /\ ~ret.err
            /\ HasDimensions(ret.result, A.Frames, A.Rows, A.Cols)
            /\ \A f \in 1..A.Frames : \A r \in 1..A.Rows : \A c \in 1..A.Cols :
                  ret.result.values[f][r][c] = A.values[f][r][c]

\* The transpose of the transpose of a tensor of two frames.
C19_Witness ==
    /\ scenario.program = "tensor"
    /\ ret.op = "TransposeBack"
    /\ ret.args = <<6>>
    /\ ret.result.values = TensorHeap[6].values
    /\ ret.result.Frames = 2 /\ ret.result.Rows = 2 /\ ret.result.Cols = 3

\* The result of an element-wise operation on the elements cur and with.
Elementwise(op, cur, with) ==
    CASE op = "SetAll" -> with
      [] op = "AddTensor" -> cur + with
      [] op = "SubtractTensor" -> cur - with
      [] op = "ScaleTensor" -> cur * with

\* C20: a mutator call that returns an error leaves the dimensions and the
\* elements of its tensor as they were, and these calls return an error: Set
\* with an index outside the tensor, SetAll, AddTensor, SubtractTensor and
\* ScaleTensor with an operand whose frames, rows or cols differ, SetRandom
\* with min >= max.  With an operand of the same dimensions the four
\* element-wise calls return no error and every element is what the name of
\* the call says.
C20_MutatorErrorsLeaveTensor ==
    scenario.program = "tensor" =>
        /\ (ret.op \in {"Set", "SetAll", "AddTensor", "SubtractTensor", "ScaleTensor",
                        "SetRandom"} /\ ret.err)
           => tensors[ret.args[1]] = ret.before[ret.args[1]]
        /\ ret.op = "Set" =>
            LET t == ret.before[ret.args[1]]
                at == ret.args[2]
            IN  (\/ at[1] < 0 \/ at[1] >= t.Frames
                 \/ at[2] < 0 \/ at[2] >= t.Rows
                 \/ at[3] < 0 \/ at[3] >= t.Cols) => ret.err
        /\ (ret.op = "SetRandom" /\ ret.args[2] >= ret.args[3]) => ret.err
        /\ ret.op \in {"SetAll", "AddTensor", "SubtractTensor", "ScaleTensor"} =>
            LET t == ret.before[ret.args[1]]
                other == ret.before[ret.args[2]]
                now == tensors[ret.args[1]]
            IN  IF t.Frames # other.Frames \/ t.Rows # other.Rows \/ t.Cols # other.Cols
                THEN ret.err
                ELSE /\ ~ret.err
                     /\ HasDimensions(now, t.Frames, t.Rows, t.Cols)
                     /\ \A f \in 1..t.Frames : \A r \in 1..t.Rows : \A c \in 1..t.Cols :
                           now.values[f][r][c] =
                               Elementwise(ret.op, t.values[f][r][c],
                                           other.values[f][r][c])

\* An AddTensor call refused for an operand of two frames, after a
\* ScaleTensor call that changed the receiver.
C20_Witness ==
    /\ scenario.program = "tensor"
    /\ ret.op = "AddTensor"
    /\ ret.args = <<2, 6>>
    /\ ret.err
    /\ tensors[2].values = << << <<2, 6, 6>>, <<-9, 2, -4>> >> >>
    /\ tensors[2] = ret.before[2]

\* C21: Equals compares rows and cols but not the frame count.  For a and b of
\* equal rows and cols, a.Equals(b) with a.Frames <= b.Frames is true iff the
\* frames 0..a.Frames-1 agree element for element; with a.Frames > b.Frames it
\* reaches the fatal Get instead of returning whenever the first b.Frames
\* frames agree; with different rows or cols it returns false.
C21_EqualsIgnoresFrames ==
    (scenario.program = "tensor" /\ ret.op = "Equals") =>
        LET a == ret.before[ret.args[1]]
            b == ret.before[ret.args[2]]
            Agree(frames) ==
                \A f \in 1..frames : \A r \in 1..a.Rows : \A c \in 1..a.Cols :
                    a.values[f][r][c] = b.values[f][r][c]
        IN  IF a.Rows # b.Rows \/ a.Cols # b.Cols
            THEN ~ret.panic /\ ret.result = FALSE
            ELSE IF a.Frames <= b.Frames
            THEN ~ret.panic /\ (ret.result <=> Agree(a.Frames))
            ELSE Agree(b.Frames) => ret.panic

\* C21 as amended: as C21, and with a.Frames > b.Frames the fatal Get is
\* reached only when a frame has elements (rows and cols positive); the call
\* returns false when the first b.Frames frames differ, and true when the
\* frames have no element.
C21_EqualsIgnoresFramesOfElements ==
    (scenario.program = "tensor" /\ ret.op = "Equals") =>
        LET a == ret.before[ret.args[1]]
            b == ret.before[ret.args[2]]
            Agree(frames) ==
                \A f \in 1..frames : \A r \in 1..a.Rows : \A c \in 1..a.Cols :
                    a.values[f][r][c] = b.values[f][r][c]
        IN  /\ tensors = ret.before
            /\ IF a.Rows # b.Rows \/ a.Cols # b.Cols
               THEN ~ret.panic /\ ret.result = FALSE
               ELSE IF a.Frames <= b.Frames
               THEN ~ret.panic /\ (ret.result <=> Agree(a.Frames))
               ELSE IF a.Rows = 0 \/ a.Cols = 0
               THEN ~ret.panic /\ ret.result = TRUE
               ELSE IF Agree(b.Frames)
               THEN ret.panic
               ELSE ~ret.panic /\ ret.result = FALSE

\* Two frames compared with their first frame alone: the fatal Get.
C21_Witness ==
    /\ scenario.program = "tensor"
    /\ ret.op = "Equals"
    /\ ret.args = <<6, 9>>
    /\ ret.before[6].values[1] = ret.before[9].values[1]
    /\ ret.panic

----------------------------------------------------------------------------
(* Claims about the auto encoders, checked under SpecCompose.              *)

\* C22: in the closed-flag design, once AddDecodingLayer has succeeded every
\* later AddCodingLayer and AddDecodingLayer returns an error and leaves the
\* layer list and the closed flag as they were; the closed flag never goes back
\* to false; and the last layer of a closed auto encoder has output width
\* inputSize.
C22_ClosedIsFinal ==
    scenario.program = "closed" =>
        /\ (ret.op \in {"AddCodingLayer", "AddDecodingLayer"} /\ ret.before.isClosed)
           => /\ ret.err
              /\ aes[1].layers = ret.before.layers
              /\ aes[1].isClosed = ret.before.isClosed
        /\ (ret.op # "none" /\ ret.before.isClosed) => aes[1].isClosed
        /\ \A i \in 1..Len(aes) :
              aes[i].isClosed =>
                  /\ ClosedLayerCount(aes[i]) >= 1
                  /\ OutputShape(layers[aes[i].layers[Len(aes[i].layers)]]).Cols
                         = aes[i].inputSize

\* An AddCodingLayer call refused by an auto encoder closed after a coding layer.
C22_Witness ==
    /\ scenario.program = "closed"
    /\ ret.op = "AddCodingLayer"
    /\ ret.err
    /\ ret.before.isClosed
    /\ ClosedLayerCount(aes[1]) = 2

\* The input and the output width of the layer object l.
InputWidth(l) == InputShape(layers[l]).Cols

OutputWidth(l) == OutputShape(layers[l]).Cols

\* C23: in the two-list design, after k AddCodingLayer calls both lists have
\* length k; decodingLayers[k-1-i] has the output width of encodingLayers[i]
\* as its input width and its input width as its output width; in the chain
\* of the encoding layers followed by the decoding layers every output width
\* is the next input width; and the first encoding layer's input width and the
\* last decoding layer's output width are inputSize.
C23_ListsMirrored ==
    scenario.program = "twoList" =>
        /\ ret.op = "AddCodingLayer" =>
              /\ ~ret.err
              /\ Len(aes[1].encodingLayers) = Len(ret.before.encodingLayers) + 1
        /\ ret.op = "none" => Len(aes[1].encodingLayers) = 0
        /\ \A a \in 1..Len(aes) :
            LET enc == aes[a].encodingLayers
                dec == aes[a].decodingLayers
                k == Len(enc)
                chain == enc \o dec
            IN  /\ Len(dec) = k
                /\ \A i \in 0..(k - 1) :
                      /\ InputWidth(dec[(k - 1 - i) + 1]) = OutputWidth(enc[i + 1])
                      /\ OutputWidth(dec[(k - 1 - i) + 1]) = InputWidth(enc[i + 1])
                /\ \A j \in 1..(Len(chain) - 1) :
                      OutputWidth(chain[j]) = InputWidth(chain[j + 1])
                /\ k >= 1 => /\ InputWidth(enc[1]) = aes[a].inputSize
                             /\ OutputWidth(dec[k]) = aes[a].inputSize

\* Three coding layers of widths that differ from each other.
C23_Witness ==
    /\ scenario.program = "twoList"
    /\ ret.op = "AddCodingLayer"
    /\ Len(aes[1].encodingLayers) = 3
    /\ OutputWidth(aes[1].encodingLayers[1]) # OutputWidth(aes[1].encodingLayers[2])
    /\ OutputWidth(aes[1].encodingLayers[2]) # OutputWidth(aes[1].encodingLayers[3])
    /\ OutputWidth(aes[1].encodingLayers[1]) # aes[1].inputSize

RECURSIVE Accepted(_, _, _)
\* The number of the layers `args`, from number m on, that continue the chain
\* ending in the output shape `last`; a chain without a layer takes any layer.
Accepted(last, args, m) ==
    IF m > Len(args) THEN 0
    ELSE IF last.some /\ InputShape(args[m]) # last.shape THEN 0
    ELSE 1 + Accepted([some |-> TRUE, shape |-> OutputShape(args[m])], args, m + 1)

\* C25: LayerAt(i) is the i-th added layer for 0 <= i < LayerCount() and nil,
\* without failing, for every negative i and every i >= LayerCount(), and
\* LayerCount() is the number of layers Add accepted.
C25_LayerAtInRange ==
    scenario.program = "nn" =>
        /\ \A n \in 1..Len(nets) :
           \A i \in (-2)..(LayerCount(nets[n]) + 2) :
              IF 0 <= i /\ i < LayerCount(nets[n])
              THEN LayerAt(nets[n], i) = nets[n][i + 1]
              ELSE LayerAt(nets[n], i) = 0
        /\ ret.op = "none" => LayerCount(nets[1]) = 0
        /\ ret.op = "Add" =>
            LET old == LayerCount(ret.before)
                last == IF old = 0 THEN [some |-> FALSE, shape |-> <<>>]
                        ELSE [some |-> TRUE,
                              shape |-> OutputShape(layers[ret.before[old]])]
                kept == Accepted(last, ret.args, 1)
            IN  /\ LayerCount(nets[1]) = old + kept
                /\ \A i \in 0..(old - 1) : LayerAt(nets[1], i) = LayerAt(ret.before, i)
                /\ \A i \in old..(old + kept - 1) :
                      /\ LayerAt(nets[1], i) # 0
                      /\ layers[LayerAt(nets[1], i)] = ret.args[i - old + 1]
                /\ LayerAt(nets[1], old + kept) = 0
                /\ LayerAt(nets[1], -1) = 0

\* Two layers added in one call to a network of one layer.
C25_Witness ==
    /\ scenario.program = "nn"
    /\ ret.op = "Add"
    /\ ~ret.err
    /\ Len(ret.args) = 2
    /\ LayerCount(ret.before) = 1
    /\ LayerCount(nets[1]) = 3
    /\ layers[LayerAt(nets[1], 2)] = ret.args[2]
    /\ LayerAt(nets[1], 3) = 0

\* C26: in the two-list design LayerAt and LayerCount agree: LayerAt(i) is a
\* layer for every 0 <= i < LayerCount(), the encoding layers first and then
\* the decoding layers, and nil for every other i.
C26_TwoListLayerAtAgrees ==
    scenario.program = "twoList" =>
        \A a \in 1..Len(aes) :
        \A i \in (-2)..(TwoListLayerCount(aes[a]) + 2) :
            IF 0 <= i /\ i < TwoListLayerCount(aes[a])
            THEN TwoListLayerAt(aes[a], i)
                     = (aes[a].encodingLayers \o aes[a].decodingLayers)[i + 1]
            ELSE TwoListLayerAt(aes[a], i) = 0

\* C27: in the closed-flag design the Copy() of an auto encoder, open or
\* closed and of any number of layers, has the layer count of the original, its
\* input and output width at every layer index, and its closed flag.
C27_ClosedCopyAlike ==
    (scenario.program = "closed" /\ ret.op = "Copy") =>
        LET original == ret.before
            copy == aes[Len(aes)]
        IN  /\ ClosedLayerCount(copy) = ClosedLayerCount(original)
            /\ \A i \in 0..(ClosedLayerCount(original) - 1) :
                  /\ ClosedLayerAt(copy, i) # 0
                  /\ InputWidth(ClosedLayerAt(copy, i))
                         = InputWidth(ClosedLayerAt(original, i))
                  /\ OutputWidth(ClosedLayerAt(copy, i))
                         = OutputWidth(ClosedLayerAt(original, i))
            /\ copy.isClosed = original.isClosed

----------------------------------------------------------------------------
(* Claims about running an auto encoder, checked under SpecAuto.           *)

\* What a dense layer's FeedForward leaves in its output cache for the
\* inputs in its input cache: the activation of inputs x Weights + Bias.
DenseOutputs(l) ==
    [c \in 1..tensors[l.outputs].Cols |->
        Max(0, SeqSum([j \in 1..tensors[l.inputs].Cols |->
                          tensors[l.inputs].values[1][1][j]
                              * tensors[l.Weights].values[1][j][c]])
               + tensors[l.Bias].values[1][1][c])]

\* C24: the sparsity noise is applied only inside Train: no Encode, Decode or
\* Predict call sets a column of a layer's output to zero, whatever the widths
\* of the layers: after the call the output of every layer fed is what its
\* FeedForward computed.
C24_NoNoiseInInference ==
    (/\ scenario.program = "auto"
     /\ ret.op \in {"Encode", "Decode", "Predict"}
     /\ ~ret.err)
    => \A i \in 1..Len(ret.fed) :
          tensors[layers[ret.fed[i]].outputs].values[1][1]
              = DenseOutputs(layers[ret.fed[i]])

\* The layer objects of a two-list auto encoder.
LayersOf(ae) ==
    {ae.encodingLayers[i] : i \in 1..Len(ae.encodingLayers)}
        \cup {ae.decodingLayers[i] : i \in 1..Len(ae.decodingLayers)}

\* C28: in the two-list design Copy() is a deep copy: after c = ae.Copy() any
\* number of ae.Train calls leave every weight, bias and previous update of
\* every layer of c as it was when the copy was taken.
C28_CopyValuesKept ==
    scenario.program = "auto" =>
        \A i \in 1..Len(copies) :
            \A l \in LayersOf(aes[copies[i].copy]) :
                  /\ tensors[layers[l].Weights] = copies[i].snapshot[layers[l].Weights]
                  /\ tensors[layers[l].Bias] = copies[i].snapshot[layers[l].Bias]
                  /\ tensors[layers[l].PrevUpdate]
                         = copies[i].snapshot[layers[l].PrevUpdate]

----------------------------------------------------------------------------
(* Claims about a dest that is a source, checked under SpecTensor.         *)

\* C29: supplying a dest never changes the result: for every dest of the
\* required shape, the tensor a or b itself included, dest after
\* MatrixMultiply(a, b, dest) equals what MatrixMultiply(a, b, nil) returns for
\* the a and b of before the call; and for a square a, a after
\* MatrixTranspose(a, a) equals what MatrixTranspose(a, nil) returns for the a
\* of before the call.
C29_DestKeepsResult ==
    scenario.program = "tensor" =>
        /\ (ret.op = "MatrixMultiply" /\ ret.args[3] # 0 /\ ~ret.err) =>
              /\ tensors[ret.args[3]]
                    = MatrixMultiply(ret.before[ret.args[1]], ret.before[ret.args[2]],
                                     NilTensor).t
              /\ ret.result = tensors[ret.args[3]]
        /\ (ret.op = "MatrixTranspose" /\ ret.args[2] # 0 /\ ~ret.err) =>
              /\ tensors[ret.args[2]]
                    = MatrixTranspose(ret.before[ret.args[1]], NilTensor).t
              /\ ret.result = tensors[ret.args[2]]

----------------------------------------------------------------------------
(* Claims about a copied dense layer, checked under SpecCopied.            *)

\* C30: a Copy() of a dense layer taken at any point of its life behaves as
\* the layer does: after every call of an identical sequence of FeedForward
\* and BackPropagate calls made on both, the Weights and the Bias of the copy
\* equal those of the layer.
C30_CopyBehavesAlike ==
    (scenario.program = "copied" /\ copies # <<>>) =>
        /\ tensors[layers[2].Weights] = tensors[layers[1].Weights]
        /\ tensors[layers[2].Bias] = tensors[layers[1].Bias]

====
